---- MODULE Spec2Model ----
(***************************************************************************)
(* A model of the configuration engine of llm-config-manager:              *)
(*   llm-config-storage  (models.rs, file.rs)   entries, JSON, FileStorage  *)
(*   llm-config-crypto   (lib.rs)               EncryptedData, encrypt      *)
(*   llm-config-core     (manager.rs, version.rs) ConfigManager, rollback   *)
(*                                                                         *)
(* Text (namespace, key, String values, hex) is a sequence of one-character *)
(* strings, so that replace('/', "_"), hex encoding and UTF-8 decoding are  *)
(* computed character by character.  Timestamps (Utc::now) are left out:    *)
(* no modelled branch reads them.                                           *)
(***************************************************************************)
EXTENDS Integers, Sequences, FiniteSets, TLC

(***************************************************************************)
(* Bounds of the model.                                                    *)
(***************************************************************************)
\* cap on the number of files the model creates under versions/
MaxVersionFiles == 3
\* cap on the number of Uuid::new_v4 values drawn for entry ids
MaxIds == 3
\* cap on the number of filesystem failures injected in one behaviour
MaxFaults == 1

\* largest version number of an entry handed directly to FileStorage::set
MaxStorageVersion == 2
\* largest max_size of an L1Cache
MaxL1Size == 2
\* largest value Utc::now() returns to the cache
MaxCacheTime == 3
\* cap on the gets counted in hit_count + miss_count of one L1Cache
MaxCacheGets == 2
\* cap on the seconds the limiter's clock advances
MaxClock == 3
\* cap on the violations counted for one IP
MaxViolations == 2
\* cap on the length of the recorded history of limiter events
MaxRequests == 5
\* in how many parts a request differs from the plain one
MaxDifferences == 2
\* cap on the number of AuditLogger::log calls
MaxAuditEvents == 3
\* largest timestamp of an audit event and largest limit of a query
MaxAuditTime == 2
\* max_request_size of the strict policy, in bytes
MaxRequestSize == 2
\* cap on the violations of an address that is banned more than once
MaxRepeatViolations == 3
\* largest max_attempts of a RetryPolicy
MaxAttempts == 3
\* the number of results the operation of a retry is given to return
MaxOutcomes == 4
\* cap on the calls of a CircuitBreaker whose operation runs at the same time
MaxExecuting == 2
\* largest failure_threshold and success_threshold of a CircuitBreaker
MaxThreshold == 2
\* largest timeout of a CircuitBreaker, in seconds
MaxTimeout == 2

(***************************************************************************)
(* Program constants.                                                      *)
(***************************************************************************)
KEY_SIZE == 32
NONCE_SIZE == 12
TAG_SIZE == 16

VARIABLES index, configs, versions, nextId, encryption_key, lastOp, faults, threads, observed,
          l1, l2, rate_limiter, clock, requests, admitted, audit, breaker, security

vars == <<index, configs, versions, nextId, encryption_key, lastOp, faults, threads, observed,
          l1, l2, rate_limiter, clock, requests, admitted, audit, breaker, security>>

(***************************************************************************)
(* Small helpers.                                                          *)
(***************************************************************************)
EmptyMap == [x \in {} |-> x]

MapPut(m, k, v) == [x \in (DOMAIN m) \cup {k} |-> IF x = k THEN v ELSE m[x]]

MapRemove(m, k) == [x \in (DOMAIN m) \ {k} |-> m[x]]

SetMax(S) == CHOOSE x \in S : \A y \in S : y <= x

SeqRange(s) == {s[i] : i \in DOMAIN s}

RECURSIVE SeqSum(_)
SeqSum(s) == IF s = <<>> THEN 0 ELSE Head(s) + SeqSum(Tail(s))

(***************************************************************************)
(* models.rs: Environment, its Display and its serde form.                  *)
(***************************************************************************)
Environment == {"Base", "Development", "Staging", "Production", "Edge"}

EnvDisplay(env) ==
    CASE env = "Base" -> "base"
      [] env = "Development" -> "development"
      [] env = "Staging" -> "staging"
      [] env = "Production" -> "production"
      [] env = "Edge" -> "edge"

EnvFromJson(s) ==
    IF \E e \in Environment : EnvDisplay(e) = s
    THEN [ok |-> TRUE, env |-> CHOOSE e \in Environment : EnvDisplay(e) = s]
    ELSE [ok |-> FALSE]

(***************************************************************************)
(* models.rs: ConfigValue.  A value is [tag, val].                          *)
(***************************************************************************)
StringV(s) == [tag |-> "String", val |-> s]
IntegerV(i) == [tag |-> "Integer", val |-> i]
\* a float is held in tenths: FloatV(15) is 1.5
FloatV(f) == [tag |-> "Float", val |-> f]
BooleanV(b) == [tag |-> "Boolean", val |-> b]
ArrayV(a) == [tag |-> "Array", val |-> a]
ObjectV(o) == [tag |-> "Object", val |-> o]
SecretV(e) == [tag |-> "Secret", val |-> e]

is_secret(v) == v.tag = "Secret"

(***************************************************************************)
(* crypto lib.rs: hex_serde, encrypt, decrypt.  AES-256-GCM is abstracted   *)
(* as a keystream cipher followed by a TAG_SIZE-byte checksum tag: decrypt  *)
(* inverts encrypt under the same key and rejects any other tag.            *)
(***************************************************************************)
HexDigits == <<"0","1","2","3","4","5","6","7","8","9","a","b","c","d","e","f">>

HexEncode(bytes) ==
    [i \in 1..(2 * Len(bytes)) |->
        IF i % 2 = 1 THEN HexDigits[(bytes[(i + 1) \div 2] \div 16) + 1]
                     ELSE HexDigits[(bytes[i \div 2] % 16) + 1]]

HexVal(c) == (CHOOSE d \in 1..16 : HexDigits[d] = c) - 1

HexDecode(s) ==
    IF Len(s) % 2 = 0 /\ \A i \in DOMAIN s : s[i] \in SeqRange(HexDigits)
    THEN [ok |-> TRUE,
          bytes |-> [i \in 1..(Len(s) \div 2) |-> 16 * HexVal(s[2 * i - 1]) + HexVal(s[2 * i])]]
    ELSE [ok |-> FALSE]

SecretKey(b) == [algorithm |-> "Aes256Gcm", bytes |-> [i \in 1..KEY_SIZE |-> b]]

KeyStream(key, nonce, i) ==
    (key.bytes[((i - 1) % KEY_SIZE) + 1] + nonce[((i - 1) % NONCE_SIZE) + 1]) % 256

AuthTag(key, nonce, plaintext) ==
    [i \in 1..TAG_SIZE |-> (SeqSum(plaintext) + key.bytes[1] + nonce[1] + i) % 256]

encrypt(key, plaintext, nonce) ==
    [algorithm |-> "Aes256Gcm",
     nonce |-> nonce,
     ciphertext |-> [i \in 1..Len(plaintext) |->
                        (plaintext[i] + KeyStream(key, nonce, i)) % 256]
                    \o AuthTag(key, nonce, plaintext),
     key_version |-> 1,
     aad_context |-> "None"]

decrypt(key, encrypted) ==
    IF \/ encrypted.algorithm # "Aes256Gcm"
       \/ key.algorithm # "Aes256Gcm"
       \/ Len(encrypted.nonce) # NONCE_SIZE
       \/ Len(encrypted.ciphertext) < TAG_SIZE
    THEN [ok |-> FALSE]
    ELSE LET n == Len(encrypted.ciphertext) - TAG_SIZE
             p == [i \in 1..n |->
                     (encrypted.ciphertext[i] + 256 - KeyStream(key, encrypted.nonce, i)) % 256]
             tag == SubSeq(encrypted.ciphertext, n + 1, n + TAG_SIZE)
         IN  IF tag = AuthTag(key, encrypted.nonce, p)
             THEN [ok |-> TRUE, plaintext |-> p]
             ELSE [ok |-> FALSE]

\* String::from_utf8 on the bytes the model uses: ASCII bytes are characters,
\* a byte of 128 and above standing alone is not valid UTF-8.
AsciiChar(b) == CASE b = 104 -> "h" [] b = 105 -> "i" [] OTHER -> "?"

from_utf8(bytes) ==
    IF \A i \in DOMAIN bytes : bytes[i] < 128
    THEN [ok |-> TRUE, s |-> [i \in DOMAIN bytes |-> AsciiChar(bytes[i])]]
    ELSE [ok |-> FALSE]

(***************************************************************************)
(* JSON documents, and serde's (de)serialization of ConfigValue.            *)
(* ConfigValue is #[serde(untagged)]: deserialization tries the variants    *)
(* in declaration order and keeps the first that accepts the document.      *)
(***************************************************************************)
JStr(s) == [j |-> "string", v |-> s]
JInt(i) == [j |-> "int", v |-> i]
JFloat(f) == [j |-> "float", v |-> f]
JBool(b) == [j |-> "bool", v |-> b]
JArr(a) == [j |-> "array", v |-> a]
JObj(o) == [j |-> "object", v |-> o]

AlgorithmToJson(a) == IF a = "Aes256Gcm" THEN <<"aes-256-gcm">> ELSE <<"?">>

EncryptedDataToJson(e) ==
    JObj(  ("algorithm" :> JStr(AlgorithmToJson(e.algorithm)))
        @@ ("nonce" :> JStr(HexEncode(e.nonce)))
        @@ ("ciphertext" :> JStr(HexEncode(e.ciphertext)))
        @@ ("key_version" :> JInt(e.key_version))
        @@ (IF e.aad_context = "None" THEN EmptyMap
            ELSE ("aad_context" :> JStr(e.aad_context))))

RECURSIVE ValueToJson(_)
ValueToJson(value) ==
    CASE value.tag = "String" -> JStr(value.val)
      [] value.tag = "Integer" -> JInt(value.val)
      [] value.tag = "Float" -> JFloat(value.val)
      [] value.tag = "Boolean" -> JBool(value.val)
      [] value.tag = "Array" -> JArr([i \in DOMAIN value.val |-> ValueToJson(value.val[i])])
      [] value.tag = "Object" -> JObj([k \in DOMAIN value.val |-> ValueToJson(value.val[k])])
      [] value.tag = "Secret" -> EncryptedDataToJson(value.val)

\* #[derive(Deserialize)] for EncryptedData: algorithm, nonce and ciphertext are
\* required, key_version defaults to 0, aad_context is optional.
EncryptedDataFromJson(doc) ==
    IF /\ doc.j = "object"
       /\ {"algorithm", "nonce", "ciphertext"} \subseteq DOMAIN doc.v
       /\ doc.v["algorithm"] = JStr(<<"aes-256-gcm">>)
       /\ doc.v["nonce"].j = "string"
       /\ doc.v["ciphertext"].j = "string"
       /\ ("key_version" \in DOMAIN doc.v => doc.v["key_version"].j = "int")
       /\ ("aad_context" \in DOMAIN doc.v => doc.v["aad_context"].j = "string")
    THEN LET n == HexDecode(doc.v["nonce"].v)
             c == HexDecode(doc.v["ciphertext"].v)
         IN  IF n.ok /\ c.ok
             THEN [ok |-> TRUE,
                   value |-> SecretV([algorithm |-> "Aes256Gcm",
                                      nonce |-> n.bytes,
                                      ciphertext |-> c.bytes,
                                      key_version |-> IF "key_version" \in DOMAIN doc.v
                                                      THEN doc.v["key_version"].v ELSE 0,
                                      aad_context |-> IF "aad_context" \in DOMAIN doc.v
                                                      THEN doc.v["aad_context"].v ELSE "None"])]
             ELSE [ok |-> FALSE]
    ELSE [ok |-> FALSE]

RECURSIVE ValueFromJson(_)
ValueFromJson(doc) ==
    LET elems == IF doc.j \in {"array", "object"}
                 THEN [k \in DOMAIN doc.v |-> ValueFromJson(doc.v[k])]
                 ELSE EmptyMap
        allOk == \A k \in DOMAIN elems : elems[k].ok
        vals  == [k \in DOMAIN elems |-> elems[k].value]
    IN  CASE doc.j = "string" -> [ok |-> TRUE, value |-> StringV(doc.v)]
          [] doc.j = "int" -> [ok |-> TRUE, value |-> IntegerV(doc.v)]
          [] doc.j = "float" -> [ok |-> TRUE, value |-> FloatV(doc.v)]
          [] doc.j = "bool" -> [ok |-> TRUE, value |-> BooleanV(doc.v)]
          [] doc.j = "array" /\ allOk -> [ok |-> TRUE, value |-> ArrayV(vals)]
          [] doc.j = "object" /\ allOk -> [ok |-> TRUE, value |-> ObjectV(vals)]
          [] OTHER -> EncryptedDataFromJson(doc)

(***************************************************************************)
(* models.rs: ConfigEntry and VersionEntry, and their JSON documents.       *)
(* metadata keeps created_by and updated_by; tags is always empty and       *)
(* description always None in the modelled calls.                           *)
(***************************************************************************)
NoEntry == [tag |-> "None"]

ConfigEntry_new(id, namespace, key, value, environment) ==
    [id |-> id, namespace |-> namespace, key |-> key, value |-> value,
     environment |-> environment, version |-> 1,
     metadata |-> [created_by |-> "system", updated_by |-> "system"]]

EntryToJson(e) ==
    [id |-> e.id, namespace |-> JStr(e.namespace), key |-> JStr(e.key),
     value |-> ValueToJson(e.value), environment |-> JStr(EnvDisplay(e.environment)),
     version |-> JInt(e.version), metadata |-> e.metadata]

EntryFromJson(doc) ==
    LET v == ValueFromJson(doc.value)
        env == EnvFromJson(doc.environment.v)
    IN  IF v.ok /\ env.ok
        THEN [ok |-> TRUE,
              entry |-> [id |-> doc.id, namespace |-> doc.namespace.v, key |-> doc.key.v,
                         value |-> v.value, environment |-> env.env,
                         version |-> doc.version.v, metadata |-> doc.metadata]]
        ELSE [ok |-> FALSE]

VersionToJson(r) ==
    [version |-> JInt(r.version), config_id |-> r.config_id,
     namespace |-> JStr(r.namespace), key |-> JStr(r.key),
     value |-> ValueToJson(r.value), environment |-> JStr(EnvDisplay(r.environment)),
     created_by |-> r.created_by, change_description |-> r.change_description]

VersionFromJson(doc) ==
    LET v == ValueFromJson(doc.value)
        env == EnvFromJson(doc.environment.v)
    IN  IF v.ok /\ env.ok
        THEN [ok |-> TRUE,
              record |-> [version |-> doc.version.v, config_id |-> doc.config_id,
                          namespace |-> doc.namespace.v, key |-> doc.key.v,
                          value |-> v.value, environment |-> env.env,
                          created_by |-> doc.created_by,
                          change_description |-> doc.change_description]]
        ELSE [ok |-> FALSE]

\* A file holds a whole document, or what a failed write left of one.
WholeFile(doc) == [complete |-> TRUE, doc |-> doc]

PartFile == [complete |-> FALSE]

(***************************************************************************)
(* file.rs: FileStorage.  index is the in-memory map, configs the files of  *)
(* <base>/configs (path -> file), versions the files of <base>/versions in  *)
(* creation order (each under a fresh UUID name).                           *)
(* A fault names the step of the call at which the filesystem fails:        *)
(* "none", "create", "write", "sync", "rename", "remove"; "died" is the      *)
(* process ending between the rename and the index update.                  *)
(***************************************************************************)
make_key(namespace, key, env) ==
    namespace \o <<":", ":">> \o key \o <<":", ":">> \o <<EnvDisplay(env)>>

SafeName(s) == [i \in DOMAIN s |-> IF s[i] = "/" THEN "_" ELSE s[i]]

config_file_path(namespace, key, env) ==
    [stem |-> SafeName(namespace) \o <<"_">> \o SafeName(key) \o <<"_">> \o <<EnvDisplay(env)>>,
     ext |-> "json"]

with_extension(path, ext) == [path EXCEPT !.ext = ext]

load_config_from_file(file) ==
    IF file.complete THEN EntryFromJson(file.doc) ELSE [ok |-> FALSE]

rebuild_index(cfgs) ==
    LET loaded == {p \in DOMAIN cfgs : p.ext = "json" /\ load_config_from_file(cfgs[p]).ok}
        cfg(p) == load_config_from_file(cfgs[p]).entry
        keyOf(p) == make_key(cfg(p).namespace, cfg(p).key, cfg(p).environment)
    IN  [k \in {keyOf(p) : p \in loaded} |-> cfg(CHOOSE p \in loaded : keyOf(p) = k)]

\* write_config_atomically writing the final file in place
temp_path_in_place(path) == path

temp_path(path) == with_extension(path, "tmp")

write_config_atomically(cfgs, config, fault) ==
    LET path == config_file_path(config.namespace, config.key, config.environment)
        json == EntryToJson(config)
        temp == temp_path(path)
    IN  CASE fault = "create" -> [ok |-> FALSE, configs |-> cfgs]
          [] fault = "write" -> [ok |-> FALSE, configs |-> MapPut(cfgs, temp, PartFile)]
          [] fault \in {"sync", "rename"} ->
                [ok |-> FALSE, configs |-> MapPut(cfgs, temp, WholeFile(json))]
          [] OTHER ->
                [ok |-> TRUE,
                 configs |-> MapPut(MapRemove(MapPut(cfgs, temp, WholeFile(json)), temp),
                                    path, WholeFile(json))]

FileStorage_set(idx, cfgs, config, fault) ==
    LET w == write_config_atomically(cfgs, config, fault)
        key == make_key(config.namespace, config.key, config.environment)
    IN  IF ~w.ok THEN [ok |-> FALSE, index |-> idx, configs |-> w.configs]
        ELSE IF fault = "died" THEN [ok |-> FALSE, index |-> idx, configs |-> w.configs]
        ELSE [ok |-> TRUE, index |-> MapPut(idx, key, config), configs |-> w.configs]

FileStorage_get(idx, namespace, key, env) ==
    IF make_key(namespace, key, env) \in DOMAIN idx
    THEN idx[make_key(namespace, key, env)]
    ELSE NoEntry

\* delete removing the file and leaving the index as it is
FileStorage_delete_file_only(idx, cfgs, namespace, key, env, fault) ==
    LET removed == make_key(namespace, key, env) \in DOMAIN idx
    IN  [ok |-> TRUE, removed |-> removed, index |-> idx,
         configs |-> MapRemove(cfgs, config_file_path(namespace, key, env))]

FileStorage_delete(idx, cfgs, namespace, key, env, fault) ==
    LET storage_key == make_key(namespace, key, env)
        removed == storage_key \in DOMAIN idx
        path == config_file_path(namespace, key, env)
    IN  IF ~removed THEN [ok |-> TRUE, removed |-> FALSE, index |-> idx, configs |-> cfgs]
        ELSE IF path \in DOMAIN cfgs /\ fault = "remove"
        THEN [ok |-> FALSE, removed |-> TRUE, index |-> MapRemove(idx, storage_key),
              configs |-> cfgs]
        ELSE [ok |-> TRUE, removed |-> TRUE, index |-> MapRemove(idx, storage_key),
              configs |-> MapRemove(cfgs, path)]

\* store_version writing to one fixed file name instead of a fresh UUID
store_version_fixed_name(vers, version, fault) ==
    LET json == VersionToJson(version)
        put(file) == IF vers = <<>> THEN <<file>> ELSE [vers EXCEPT ![Len(vers)] = file]
    IN  CASE fault = "create" -> [ok |-> FALSE, versions |-> vers]
          [] fault = "write" -> [ok |-> FALSE, versions |-> put(PartFile)]
          [] fault = "sync" -> [ok |-> FALSE, versions |-> put(WholeFile(json))]
          [] OTHER -> [ok |-> TRUE, versions |-> put(WholeFile(json))]

store_version(vers, version, fault) ==
    LET json == VersionToJson(version)
    IN  CASE fault = "create" -> [ok |-> FALSE, versions |-> vers]
          [] fault = "write" -> [ok |-> FALSE, versions |-> Append(vers, PartFile)]
          [] fault = "sync" -> [ok |-> FALSE, versions |-> Append(vers, WholeFile(json))]
          [] OTHER -> [ok |-> TRUE, versions |-> Append(vers, WholeFile(json))]

\* The files of versions/ that parse and belong to the triple.  get_versions
\* returns their records sorted by version, largest first; records of equal
\* version keep the order read_dir gave them, which is unspecified.
VersionFiles(vers, namespace, key, env) ==
    {i \in DOMAIN vers :
        /\ vers[i].complete
        /\ LET parsed == VersionFromJson(vers[i].doc)
           IN  /\ parsed.ok
               /\ parsed.record.namespace = namespace
               /\ parsed.record.key = key
               /\ parsed.record.environment = env}

VersionAt(vers, i) == VersionFromJson(vers[i].doc).record

get_versions(vers, namespace, key, env) ==
    {VersionAt(vers, i) : i \in VersionFiles(vers, namespace, key, env)}

(***************************************************************************)
(* version.rs: VersionControl.create_snapshot                               *)
(***************************************************************************)
create_snapshot(vers, config, change_description, fault) ==
    store_version(vers,
                  [version |-> config.version, config_id |-> config.id,
                   namespace |-> config.namespace, key |-> config.key,
                   value |-> config.value, environment |-> config.environment,
                   created_by |-> config.metadata.updated_by,
                   change_description |-> change_description],
                  fault)

(***************************************************************************)
(* manager.rs: the read paths of ConfigManager, as functions of the state.  *)
(***************************************************************************)
NoKey == [tag |-> "None"]

NoValue == [tag |-> "None"]

\* decrypt_entry leaving the value as it is stored
decrypt_entry_stored_value(entry, key) == [ok |-> TRUE, entry |-> entry]

\* decrypt_entry: a Secret value becomes String(utf8(plaintext)) on the copy
decrypt_entry(entry, key) ==
    IF is_secret(entry.value)
    THEN LET d == decrypt(key, entry.value.val)
         IN  IF d.ok /\ from_utf8(d.plaintext).ok
             THEN [ok |-> TRUE,
                   entry |-> [entry EXCEPT !.value = StringV(from_utf8(d.plaintext).s)]]
             ELSE [ok |-> FALSE]
    ELSE [ok |-> TRUE, entry |-> entry]

get(idx, ekey, namespace, key, env) ==
    LET entry == FileStorage_get(idx, namespace, key, env)
    IN  IF entry # NoEntry /\ ekey # NoKey
        THEN decrypt_entry(entry, ekey)
        ELSE [ok |-> TRUE, entry |-> entry]

\* a chain holding the environment asked for alone
OverrideEnvs_own_only(env) == IF env = "Base" THEN <<>> ELSE <<env>>

\* the match on env in get_with_overrides
OverrideEnvs(env) ==
    CASE env = "Base" -> <<>>
      [] env = "Development" -> <<"Development">>
      [] env = "Staging" -> <<"Development", "Staging">>
      [] env = "Production" -> <<"Development", "Staging", "Production">>
      [] env = "Edge" -> <<"Edge">>

\* the for loop over envs: a present override replaces the value
RECURSIVE ApplyOverrides(_, _, _, _, _)
ApplyOverrides(idx, namespace, key, envs, value) ==
    IF envs = <<>> THEN value
    ELSE LET override_entry == FileStorage_get(idx, namespace, key, Head(envs))
         IN  ApplyOverrides(idx, namespace, key, Tail(envs),
                            IF override_entry # NoEntry THEN override_entry.value ELSE value)

get_with_overrides(idx, ekey, namespace, key, env) ==
    LET base == FileStorage_get(idx, namespace, key, "Base")
        envs == OverrideEnvs(env)
        value == ApplyOverrides(idx, namespace, key, envs,
                                IF base # NoEntry THEN base.value ELSE NoValue)
        reads == <<"Base">> \o envs
    IN  IF value # NoValue /\ is_secret(value) /\ ekey # NoKey
        THEN LET d == decrypt(ekey, value.val)
             IN  IF d.ok /\ from_utf8(d.plaintext).ok
                 THEN [ok |-> TRUE, value |-> StringV(from_utf8(d.plaintext).s), reads |-> reads]
                 ELSE [ok |-> FALSE, value |-> NoValue, reads |-> reads]
        ELSE [ok |-> TRUE, value |-> value, reads |-> reads]

get_secret(idx, ekey, namespace, key, env) ==
    IF ekey = NoKey THEN [ok |-> FALSE, plaintext |-> "None"]
    ELSE LET entry == FileStorage_get(idx, namespace, key, env)
         IN  IF entry = NoEntry THEN [ok |-> TRUE, plaintext |-> "None"]
             ELSE IF is_secret(entry.value)
             THEN LET d == decrypt(ekey, entry.value.val)
                  IN  IF d.ok THEN [ok |-> TRUE, plaintext |-> d.plaintext]
                      ELSE [ok |-> FALSE, plaintext |-> "None"]
             ELSE [ok |-> FALSE, plaintext |-> "None"]

get_history(vers, namespace, key, env) == get_versions(vers, namespace, key, env)

HistoryVersions(vers, namespace, key, env) ==
    {r.version : r \in get_history(vers, namespace, key, env)}

(***************************************************************************)
(* The calls of ConfigManager as actions.  lastOp records the last call:    *)
(* its name, its arguments, res ("Ok" or "Err") and what it returned.       *)
(***************************************************************************)
Call(op, namespace, key, env, arg, res, ret) ==
    [op |-> op, namespace |-> namespace, key |-> key, env |-> env,
     arg |-> arg, res |-> res, ret |-> ret]

Result(ok) == IF ok THEN "Ok" ELSE "Err"

SeqFrame ==
    UNCHANGED <<threads, observed, l1, l2, rate_limiter, clock, requests, admitted, audit, breaker,
                security>>

\* the failures a call with these faults meets: the snapshot is only reached
\* when the storage write succeeded
FaultsMet(sfault, vfault) ==
    IF sfault # "none" THEN 1 ELSE IF vfault # "none" THEN 1 ELSE 0

FaultGuard(sfault, vfault) ==
    /\ sfault # "none" => vfault = "none"
    /\ faults + FaultsMet(sfault, vfault) <= MaxFaults
    /\ faults' = faults + FaultsMet(sfault, vfault)

\* the entry ConfigManager::set builds from what storage.get returned
set_entry(existing, id, namespace, key, value, env, user) ==
    IF existing # NoEntry
    THEN [existing EXCEPT !.value = value,
                          !.version = existing.version + 1,
                          !.metadata.updated_by = user]
    ELSE [ConfigEntry_new(id, namespace, key, value, env)
             EXCEPT !.metadata = [created_by |-> user, updated_by |-> user]]

SetCall(op, arg, namespace, key, value, env, user, sfault, vfault) ==
    LET existing == FileStorage_get(index, namespace, key, env)
        entry == set_entry(existing, nextId, namespace, key, value, env, user)
        st == FileStorage_set(index, configs, entry, sfault)
        sn == create_snapshot(versions, entry, <<"Configuration updated">>, vfault)
    IN  /\ FaultGuard(sfault, vfault)
        /\ Len(versions) < MaxVersionFiles
        /\ existing = NoEntry => nextId <= MaxIds
        /\ nextId' = IF existing = NoEntry THEN nextId + 1 ELSE nextId
        /\ index' = st.index
        /\ configs' = st.configs
        /\ versions' = IF st.ok THEN sn.versions ELSE versions
        /\ lastOp' = Call(op, namespace, key, env, arg, Result(st.ok /\ sn.ok), entry)
        /\ UNCHANGED encryption_key
        /\ SeqFrame

ConfigManager_set(namespace, key, value, env, user, sfault, vfault) ==
    SetCall("set", value, namespace, key, value, env, user, sfault, vfault)

ConfigManager_set_secret(namespace, key, plaintext, env, user, nonce, sfault, vfault) ==
    IF encryption_key = NoKey
    THEN /\ lastOp' = Call("set_secret", namespace, key, env, plaintext, "Err", NoEntry)
         /\ UNCHANGED <<index, configs, versions, nextId, encryption_key, faults>>
         /\ SeqFrame
    ELSE SetCall("set_secret", plaintext, namespace, key,
                 SecretV(encrypt(encryption_key, plaintext, nonce)), env, user, sfault, vfault)

ConfigManager_get(namespace, key, env) ==
    LET r == get(index, encryption_key, namespace, key, env)
    IN  /\ lastOp' = Call("get", namespace, key, env, "None", Result(r.ok),
                          IF r.ok THEN r.entry ELSE NoEntry)
        /\ UNCHANGED <<index, configs, versions, nextId, encryption_key, faults>>
        /\ SeqFrame

ConfigManager_get_with_overrides(namespace, key, env) ==
    LET r == get_with_overrides(index, encryption_key, namespace, key, env)
    IN  /\ lastOp' = Call("get_with_overrides", namespace, key, env, "None", Result(r.ok),
                          [value |-> r.value, reads |-> r.reads])
        /\ UNCHANGED <<index, configs, versions, nextId, encryption_key, faults>>
        /\ SeqFrame

ConfigManager_get_secret(namespace, key, env) ==
    LET r == get_secret(index, encryption_key, namespace, key, env)
    IN  /\ lastOp' = Call("get_secret", namespace, key, env, "None", Result(r.ok), r.plaintext)
        /\ UNCHANGED <<index, configs, versions, nextId, encryption_key, faults>>
        /\ SeqFrame

ConfigManager_delete(namespace, key, env, fault) ==
    LET d == FileStorage_delete(index, configs, namespace, key, env, fault)
    IN  /\ fault # "none" => ~d.ok
        /\ faults + (IF d.ok THEN 0 ELSE 1) <= MaxFaults
        /\ faults' = faults + (IF d.ok THEN 0 ELSE 1)
        /\ index' = d.index
        /\ configs' = d.configs
        /\ lastOp' = Call("delete", namespace, key, env, "None", Result(d.ok), d.removed)
        /\ UNCHANGED <<versions, nextId, encryption_key>>
        /\ SeqFrame

ConfigManager_get_history(namespace, key, env) ==
    /\ lastOp' = Call("get_history", namespace, key, env, "None", "Ok",
                      get_history(versions, namespace, key, env))
    /\ UNCHANGED <<index, configs, versions, nextId, encryption_key, faults>>
    /\ SeqFrame

\* rollback numbering the new entry as set numbers a new entry
rollback_version_restarts(history) == 1

\* the version rollback gives the new entry: versions.first() is the record
\* of largest version, the list being sorted largest first
rollback_version(history) ==
    IF history = {} THEN 1 ELSE SetMax({r.version : r \in history}) + 1

\* rollback giving the entry the version number of the record it restores
rollback_entry_keeps_version(history, id, version) ==
    [ConfigEntry_new(id, version.namespace, version.key, version.value, version.environment)
        EXCEPT !.version = version.version]

\* rollback copying the newest record instead of the one it found
rollback_entry_from_head(history, id, version) ==
    LET head == CHOOSE r \in history : \A o \in history : o.version <= r.version
    IN  [ConfigEntry_new(id, head.namespace, head.key, head.value, head.environment)
            EXCEPT !.version = rollback_version(history)]

\* the entry VersionControl::rollback builds from the record it found
rollback_entry(history, id, version) ==
    [ConfigEntry_new(id, version.namespace, version.key, version.value, version.environment)
        EXCEPT !.version = rollback_version(history)]

\* find falling back to the newest record when no record carries the version
rollback_targets_or_head(history, target_version) ==
    IF {v \in history : v.version = target_version} # {}
    THEN {v \in history : v.version = target_version}
    ELSE {v \in history : \A o \in history : o.version <= v.version}

\* versions.iter().find(|v| v.version == target_version): the first record of
\* that version in the sorted list, any of them when several carry it
rollback_targets(history, target_version) ==
    {v \in history : v.version = target_version}

ConfigManager_rollback(namespace, key, env, target_version, sfault, vfault) ==
    LET history == get_history(versions, namespace, key, env)
    IN  IF rollback_targets(history, target_version) = {}
        THEN /\ lastOp' = Call("rollback", namespace, key, env, target_version, "Ok", NoEntry)
             /\ UNCHANGED <<index, configs, versions, nextId, encryption_key, faults>>
             /\ SeqFrame
        ELSE \E version \in rollback_targets(history, target_version) :
             LET config == rollback_entry(history, nextId, version)
                 st == FileStorage_set(index, configs, config, sfault)
                 sn == create_snapshot(versions, config,
                                       <<"Rollback to version ", target_version>>, vfault)
             IN  /\ FaultGuard(sfault, vfault)
                 /\ Len(versions) < MaxVersionFiles
                 /\ nextId <= MaxIds
                 /\ nextId' = nextId + 1
                 /\ index' = st.index
                 /\ configs' = st.configs
                 /\ versions' = IF st.ok THEN sn.versions ELSE versions
                 /\ lastOp' = Call("rollback", namespace, key, env, target_version,
                                   Result(st.ok /\ sn.ok), config)
                 /\ UNCHANGED encryption_key
                 /\ SeqFrame

\* FileStorage::new on the same directory: the index is rebuilt from configs/
Restart ==
    /\ index' = rebuild_index(configs)
    /\ lastOp' = Call("restart", <<>>, <<>>, "Base", "None", "Ok", "None")
    /\ UNCHANGED <<configs, versions, nextId, encryption_key, faults>>
    /\ SeqFrame

(***************************************************************************)
(* llm-config-cache, l1.rs: L1Cache, a record of the map cache (cache key   *)
(* -> CachedEntry), max_size and the two counters.  now is what Utc::now()  *)
(* returns inside the call, a wall clock that may repeat or step back.      *)
(***************************************************************************)
L1Cache_new(max_size) ==
    [cache |-> EmptyMap, max_size |-> max_size, hit_count |-> 0, miss_count |-> 0]

\* L1Cache::cache_key and L2Cache::cache_key: format!("{}:{}:{}", ..)
cache_key(namespace, key, env) == namespace \o <<":">> \o key \o <<":">> \o <<env>>

L1Cache_get(c, namespace, key, env, now) ==
    LET k == cache_key(namespace, key, env)
    IN  IF k \in DOMAIN c.cache
        THEN [ok |-> TRUE, entry |-> c.cache[k].entry,
              l1 |-> [c EXCEPT !.cache[k].accessed_at = now,
                               !.cache[k].access_count = @ + 1,
                               !.hit_count = @ + 1]]
        ELSE [ok |-> FALSE, entry |-> NoEntry, l1 |-> [c EXCEPT !.miss_count = @ + 1]]

\* evict_lru removing a most recently used entry instead
mru_keys(cache) ==
    {k \in DOMAIN cache : \A o \in DOMAIN cache : cache[k].accessed_at >= cache[o].accessed_at}

\* the keys min_by_key(accessed_at) may return: the map's iteration order is
\* unspecified, so any key of earliest accessed_at
lru_keys(cache) ==
    {k \in DOMAIN cache : \A o \in DOMAIN cache : cache[k].accessed_at <= cache[o].accessed_at}

\* evict_lru, one map for each key it may remove; an empty map stays empty
evict_lru(cache) ==
    IF DOMAIN cache = {} THEN {cache} ELSE {MapRemove(cache, k) : k \in lru_keys(cache)}

\* L1Cache::put, one cache for each outcome of the eviction
L1Cache_put(c, entry, now) ==
    LET k == cache_key(entry.namespace, entry.key, EnvDisplay(entry.environment))
        cached == [entry |-> entry, accessed_at |-> now, access_count |-> 1]
        kept == IF Cardinality(DOMAIN c.cache) >= c.max_size /\ k \notin DOMAIN c.cache
                THEN evict_lru(c.cache)
                ELSE {c.cache}
    IN  {[c EXCEPT !.cache = MapPut(m, k, cached)] : m \in kept}

L1Cache_invalidate(c, namespace, key, env) ==
    [c EXCEPT !.cache = MapRemove(c.cache, cache_key(namespace, key, env))]

L1Cache_clear(c) == [c EXCEPT !.cache = EmptyMap, !.hit_count = 0, !.miss_count = 0]

(***************************************************************************)
(* l2.rs: L2Cache, a record of index (cache key -> path) and files, the     *)
(* files of the cache directory (path -> file).                             *)
(***************************************************************************)
\* hex::encode is one to one: the name is kept as the text it encodes, marked
cache_file_path(k) == [stem |-> <<"hex">> \o k, ext |-> "cache"]

L2_rebuild_index(files) ==
    LET loaded == {p \in DOMAIN files : p.ext = "cache" /\ load_config_from_file(files[p]).ok}
        cfg(p) == load_config_from_file(files[p]).entry
        keyOf(p) == cache_key(cfg(p).namespace, cfg(p).key, EnvDisplay(cfg(p).environment))
    IN  [k \in {keyOf(p) : p \in loaded} |-> CHOOSE p \in loaded : keyOf(p) = k]

L2Cache_new(files) == [index |-> L2_rebuild_index(files), files |-> files]

L2Cache_get(c, namespace, key, env) ==
    LET k == cache_key(namespace, key, env)
    IN  IF k \in DOMAIN c.index /\ c.index[k] \in DOMAIN c.files
                                /\ load_config_from_file(c.files[c.index[k]]).ok
        THEN [ok |-> TRUE, entry |-> load_config_from_file(c.files[c.index[k]]).entry]
        ELSE [ok |-> FALSE, entry |-> NoEntry]

\* L2Cache::put; fault names the step that fails: "create" (File::create),
\* "write" (to_writer, flush), "rename", or "none"
L2Cache_put(c, entry, fault) ==
    LET k == cache_key(entry.namespace, entry.key, EnvDisplay(entry.environment))
        path == cache_file_path(k)
        temp == with_extension(path, "tmp")
        json == EntryToJson(entry)
    IN  CASE fault = "create" -> [ok |-> FALSE, l2 |-> c]
          [] fault = "write" ->
                [ok |-> FALSE, l2 |-> [c EXCEPT !.files = MapPut(c.files, temp, PartFile)]]
          [] fault = "rename" ->
                [ok |-> FALSE, l2 |-> [c EXCEPT !.files = MapPut(c.files, temp, WholeFile(json))]]
          [] OTHER ->
                [ok |-> TRUE,
                 l2 |-> [index |-> MapPut(c.index, k, path),
                         files |-> MapPut(MapRemove(c.files, temp), path, WholeFile(json))]]

L2Cache_invalidate(c, namespace, key, env) ==
    LET k == cache_key(namespace, key, env)
    IN  IF k \in DOMAIN c.index
        THEN [index |-> MapRemove(c.index, k), files |-> MapRemove(c.files, c.index[k])]
        ELSE c

L2Cache_clear(c) ==
    [index |-> EmptyMap,
     files |-> [p \in {q \in DOMAIN c.files : q.ext # "cache"} |-> c.files[p]]]

(***************************************************************************)
(* llm-config-security, rate_limit.rs: RateLimiter.  A governor limiter of  *)
(* Quota::per_second(rate).allow_burst(burst) is a bucket of at most burst  *)
(* cells, full when created, one cell taken by each check that passes and   *)
(* rate cells given back per second.  Time is Instant::now() in whole       *)
(* seconds; the buckets are replenished when the clock advances.            *)
(***************************************************************************)
UNAUTH_BURST_DIVISOR == 5

AUTH_IP_DIVISOR == 10

PER_IP_BURST == 10

LIMITER_IDLE_SECONDS == 3600

Min(a, b) == IF a <= b THEN a ELSE b

direct(rate, burst) == [rate |-> rate, burst |-> burst, cells |-> burst]

governor_check(g) ==
    IF g.cells >= 1
    THEN [ok |-> TRUE, limiter |-> [g EXCEPT !.cells = @ - 1]]
    ELSE [ok |-> FALSE, limiter |-> g]

\* replenish without the cap of the burst
replenish_uncapped(g, seconds) == [g EXCEPT !.cells = @ + g.rate * seconds]

replenish(g, seconds) == [g EXCEPT !.cells = Min(g.burst, @ + g.rate * seconds)]

RateLimiter_new(config) ==
    [config |-> config,
     authenticated_limiter |-> direct(config.authenticated_rps, config.burst_size),
     unauthenticated_limiter |->
        direct(config.unauthenticated_rps, config.burst_size \div UNAUTH_BURST_DIVISOR),
     per_ip_limiters |-> EmptyMap,
     banned_ips |-> EmptyMap]

\* is_banned counting the second at which the ban runs out as banned
is_banned_inclusive(rl, ip, now) ==
    /\ ip \in DOMAIN rl.banned_ips
    /\ now - rl.banned_ips[ip].banned_at <= rl.config.ban_duration_seconds

is_banned(rl, ip, now) ==
    /\ ip \in DOMAIN rl.banned_ips
    /\ now - rl.banned_ips[ip].banned_at < rl.config.ban_duration_seconds

\* ban_ip putting every IP that has an IpLimiter on the ban list
ban_ip_with_others(rl, ip, reason, violations, now) ==
    [rl EXCEPT !.banned_ips =
        [i \in DOMAIN rl.per_ip_limiters \cup {ip} |->
            [banned_at |-> now, reason |-> reason, violations |-> violations]]]

ban_ip(rl, ip, reason, violations, now) ==
    [rl EXCEPT !.banned_ips =
        MapPut(@, ip, [banned_at |-> now, reason |-> reason, violations |-> violations])]

\* record_violation starting the count again when it bans
record_violation_resetting(rl, ip, reason, now) ==
    IF ip \in DOMAIN rl.per_ip_limiters
    THEN LET counted == [rl EXCEPT !.per_ip_limiters[ip].violations = @ + 1,
                                   !.per_ip_limiters[ip].last_violation = now]
             violations == counted.per_ip_limiters[ip].violations
         IN  IF violations >= rl.config.ban_threshold
             THEN ban_ip([counted EXCEPT !.per_ip_limiters[ip].violations = 0],
                         ip, reason, violations, now)
             ELSE counted
    ELSE rl

\* record_violation: nothing is recorded for an IP without an IpLimiter
record_violation(rl, ip, reason, now) ==
    IF ip \in DOMAIN rl.per_ip_limiters
    THEN LET counted == [rl EXCEPT !.per_ip_limiters[ip].violations = @ + 1,
                                   !.per_ip_limiters[ip].last_violation = now]
             violations == counted.per_ip_limiters[ip].violations
         IN  IF violations >= rl.config.ban_threshold
             THEN ban_ip(counted, ip, reason, violations, now)
             ELSE counted
    ELSE rl

\* the IpLimiter or_insert_with creates for a first request
IpLimiter_new(config, authenticated, now) ==
    [limiter |-> direct(IF authenticated
                        THEN config.authenticated_rps \div AUTH_IP_DIVISOR
                        ELSE config.unauthenticated_rps,
                        PER_IP_BURST),
     violations |-> 0,
     last_violation |-> now]

check_request(rl, ip, authenticated, now) ==
    IF is_banned(rl, ip, now)
    THEN [ok |-> FALSE, why |-> "IP address is temporarily banned", limiter |-> rl]
    ELSE
    LET global == governor_check(IF authenticated THEN rl.authenticated_limiter
                                                  ELSE rl.unauthenticated_limiter)
        passed == IF authenticated
                  THEN [rl EXCEPT !.authenticated_limiter = global.limiter]
                  ELSE [rl EXCEPT !.unauthenticated_limiter = global.limiter]
        entered == IF ip \in DOMAIN passed.per_ip_limiters
                   THEN passed
                   ELSE [passed EXCEPT !.per_ip_limiters =
                            MapPut(@, ip, IpLimiter_new(rl.config, authenticated, now))]
        own == governor_check(entered.per_ip_limiters[ip].limiter)
    IN  IF ~global.ok
        THEN [ok |-> FALSE, why |-> "Too many requests. Please try again later",
              limiter |-> record_violation(rl, ip, "Global rate limit exceeded", now)]
        ELSE IF ~own.ok
        THEN [ok |-> FALSE, why |-> <<"Too many requests from IP {}. Please try again later", ip>>,
              limiter |-> record_violation(entered, ip, "Per-IP rate limit exceeded", now)]
        ELSE [ok |-> TRUE, why |-> "",
              limiter |-> [entered EXCEPT !.per_ip_limiters[ip].limiter = own.limiter]]

unban(rl, ip) == [rl EXCEPT !.banned_ips = MapRemove(@, ip)]

cleanup(rl, now) ==
    [rl EXCEPT
        !.banned_ips =
            [ip \in {i \in DOMAIN @ : now - @[i].banned_at < rl.config.ban_duration_seconds}
                |-> @[ip]],
        !.per_ip_limiters =
            [ip \in {i \in DOMAIN @ : now - @[i].last_violation < LIMITER_IDLE_SECONDS}
                |-> @[ip]]]

\* the limiters after the clock has advanced by seconds
elapse(rl, seconds) ==
    [rl EXCEPT
        !.authenticated_limiter = replenish(@, seconds),
        !.unauthenticated_limiter = replenish(@, seconds),
        !.per_ip_limiters =
            [ip \in DOMAIN @ |-> [@[ip] EXCEPT !.limiter = replenish(@, seconds)]]]

\* successes of check_request per class (authenticated or not) in the previous
\* and in the current second; nothing is counted while counting is off
NoWindow == [counting |-> FALSE,
             previous |-> [authenticated \in BOOLEAN |-> 0],
             current |-> [authenticated \in BOOLEAN |-> 0]]

\* the counters after a check_request of the class with the result ok
Counted(window, authenticated, ok) ==
    IF window.counting /\ ok
    THEN [window EXCEPT !.current[authenticated] = @ + 1]
    ELSE window

\* the counters after one second has passed
Shifted(window) ==
    IF window.counting
    THEN [window EXCEPT !.previous = window.current,
                        !.current = [authenticated \in BOOLEAN |-> 0]]
    ELSE window

(***************************************************************************)
(* PolicyEnforcer (policy.rs) and InputValidator (input.rs).  A check       *)
(* returns TRUE for Ok(()).                                                *)
(***************************************************************************)
starts_with(text, prefix) ==
    Len(prefix) <= Len(text) /\ SubSeq(text, 1, Len(prefix)) = prefix

ends_with(text, suffix) ==
    Len(suffix) <= Len(text)
        /\ SubSeq(text, Len(text) - Len(suffix) + 1, Len(text)) = suffix

\* Regex::is_match for a pattern that is a literal
is_match(pattern, input) ==
    \E i \in 1..(Len(input) - Len(pattern) + 1) :
        SubSeq(input, i, i + Len(pattern) - 1) = pattern

\* SecurityPolicy::default(), the fields the enforcer checks
SecurityPolicy_default ==
    [allowed_ip_ranges |-> {"0.0.0.0/0"}, blocked_ips |-> {}, require_tls |-> TRUE,
     min_tls_version |-> "1.2", allowed_origins |-> {}, max_request_size |-> 10485760,
     allowed_endpoints |-> {}, blocked_endpoints |-> {}]

check_ip(policy, ip) ==
    IF ip \in policy.blocked_ips
    THEN FALSE
    ELSE IF policy.allowed_ip_ranges # {} /\ "0.0.0.0/0" \notin policy.allowed_ip_ranges
    THEN ip \in policy.allowed_ip_ranges
    ELSE TRUE

parse_tls_version(version) ==
    CASE version = "1.0" -> 10
      [] version = "1.1" -> 11
      [] version = "1.2" -> 12
      [] version = "1.3" -> 13
      [] OTHER -> 0

check_tls(policy, is_tls, version) ==
    IF policy.require_tls /\ ~is_tls
    THEN FALSE
    ELSE IF is_tls
    THEN ~(parse_tls_version(version) < parse_tls_version(policy.min_tls_version))
    ELSE TRUE

check_origin(policy, origin) ==
    IF policy.allowed_origins = {}
    THEN TRUE
    ELSE origin \in policy.allowed_origins \/ "*" \in policy.allowed_origins

check_request_size(policy, size) == ~(size > policy.max_request_size)

matches_pattern(text, pattern) ==
    IF pattern = <<"*">>
    THEN TRUE
    ELSE IF pattern # <<>> /\ pattern[Len(pattern)] = "*"
    THEN starts_with(text, SubSeq(pattern, 1, Len(pattern) - 1))
    ELSE IF pattern # <<>> /\ pattern[1] = "*"
    THEN ends_with(text, Tail(pattern))
    ELSE text = pattern

is_endpoint_allowed(policy, endpoint) ==
    \E pattern \in policy.allowed_endpoints : matches_pattern(endpoint, pattern)

is_endpoint_blocked(policy, endpoint) ==
    \E pattern \in policy.blocked_endpoints : matches_pattern(endpoint, pattern)

check_endpoint(policy, endpoint) ==
    IF is_endpoint_blocked(policy, endpoint)
    THEN FALSE
    ELSE IF policy.allowed_endpoints # {} /\ ~is_endpoint_allowed(policy, endpoint)
    THEN FALSE
    ELSE TRUE

\* SanitizationConfig::default()
SanitizationConfig_default ==
    [max_length |-> 1000, allow_special_chars |-> FALSE, allow_html |-> FALSE,
     trim_whitespace |-> TRUE]

\* the SQL patterns that are literals: ' -- ; /* */ @@ @ and #
detect_sql_injection(input) ==
    \E pattern \in {<<"'">>, <<"-", "-">>, <<";">>, <<"/", "*">>, <<"*", "/">>, <<"@">>,
                    <<"#">>} :
        is_match(pattern, input)

\* the XSS patterns that are literals
detect_xss(config, input) ==
    IF ~config.allow_html
    THEN \E pattern \in {<<"<", "i", "f", "r", "a", "m", "e">>, <<"<", "e", "m", "b", "e", "d">>,
                         <<"e", "v", "a", "l", "(">>} :
            is_match(pattern, input)
    ELSE FALSE

\* the patterns ../ and %2e%2e/ (those ending in a backslash left out)
detect_path_traversal(input) ==
    \E pattern \in {<<".", ".", "/">>, <<"%", "2", "e", "%", "2", "e", "/">>} :
        is_match(pattern, input)

\* the characters ; & | $ of the first pattern (backquote and newline left out)
detect_command_injection(input) ==
    \E c \in {";", "&", "|", "$"} : is_match(<<c>>, input)

\* InputValidator::validate: "Ok", or the kind of the SecurityError
validate(config, input) ==
    IF Len(input) > config.max_length THEN "ValidationError"
    ELSE IF detect_sql_injection(input) THEN "SqlInjectionAttempt"
    ELSE IF detect_xss(config, input) THEN "XssAttempt"
    ELSE IF detect_path_traversal(input) THEN "PathTraversalAttempt"
    ELSE IF detect_command_injection(input) THEN "CommandInjectionAttempt"
    ELSE "Ok"

\* SecurityState::new(): the policy_enforcer and the input_validator (the
\* rate_limiter is the variable of that name)
SecurityState_new ==
    [policy_enforcer |-> SecurityPolicy_default, input_validator |-> SanitizationConfig_default]

SecurityState_with_components(input_validator, policy_enforcer) ==
    [policy_enforcer |-> policy_enforcer, input_validator |-> input_validator]

(***************************************************************************)
(* CircuitBreaker (error_utils.rs): the state behind the mutex and the     *)
(* configuration; Instant values are seconds of the clock.  executing is   *)
(* the number of calls whose operation is running; failed_in_a_row counts  *)
(* the calls that failed one after the other while the circuit is closed,  *)
(* succeeded_in_a_row the calls that succeeded one after the other while   *)
(* it is half-open.                                                        *)
(***************************************************************************)
Closed(failures) == [tag |-> "Closed", failures |-> failures]

Open(opened_at) == [tag |-> "Open", opened_at |-> opened_at]

HalfOpen(successes) == [tag |-> "HalfOpen", successes |-> successes]

CircuitBreaker_new(failure_threshold, success_threshold, timeout) ==
    [state |-> Closed(0),
     failure_threshold |-> failure_threshold,
     success_threshold |-> success_threshold,
     timeout |-> timeout,
     executing |-> 0,
     failed_in_a_row |-> 0,
     succeeded_in_a_row |-> 0]

\* opened_at.elapsed() >= self.timeout
timeout_elapsed(b, now) == now - b.state.opened_at >= b.timeout

\* the first block of call: whether the operation is executed, and the state
\* the check leaves
should_execute(b, now) ==
    CASE b.state.tag = "Closed" -> [execute |-> TRUE, state |-> b.state]
      [] b.state.tag = "Open" ->
            IF timeout_elapsed(b, now)
            THEN [execute |-> TRUE, state |-> HalfOpen(0)]
            ELSE [execute |-> FALSE, state |-> b.state]
      [] OTHER -> [execute |-> TRUE, state |-> b.state]

\* on_success closing the circuit one success late
on_success_late(b) ==
    CASE b.state.tag = "Closed" -> Closed(0)
      [] b.state.tag = "HalfOpen" ->
            IF b.state.successes + 1 > b.success_threshold
            THEN Closed(0)
            ELSE HalfOpen(b.state.successes + 1)
      [] OTHER -> b.state

on_success(b) ==
    CASE b.state.tag = "Closed" -> Closed(0)
      [] b.state.tag = "HalfOpen" ->
            IF b.state.successes + 1 >= b.success_threshold
            THEN Closed(0)
            ELSE HalfOpen(b.state.successes + 1)
      [] OTHER -> b.state

\* on_failure opening the circuit one failure late
on_failure_late(b, now) ==
    CASE b.state.tag = "Closed" ->
            IF b.state.failures + 1 > b.failure_threshold
            THEN Open(now)
            ELSE Closed(b.state.failures + 1)
      [] b.state.tag = "HalfOpen" -> Open(now)
      [] OTHER -> b.state

on_failure(b, now) ==
    CASE b.state.tag = "Closed" ->
            IF b.state.failures + 1 >= b.failure_threshold
            THEN Open(now)
            ELSE Closed(b.state.failures + 1)
      [] b.state.tag = "HalfOpen" -> Open(now)
      [] OTHER -> b.state

CircuitBreaker_default_config == CircuitBreaker_new(5, 2, 60)

(***************************************************************************)
(* AuditLogger (logger.rs) over FileAuditStorage (storage.rs): event_tx is *)
(* the unbounded channel to the consumer task, log the lines of audit.log  *)
(* in a fresh directory, sent the events of the log() calls that returned  *)
(* Ok, in the order of the calls.                                          *)
(***************************************************************************)
AuditLogger_new == [event_tx |-> <<>>, log |-> <<>>, sent |-> <<>>]

(***************************************************************************)
(* Inputs.                                                                 *)
(***************************************************************************)
Namespaces == {<<"a", "/", "b">>}

Keys == {<<"k">>}

Users == {"admin"}

Plaintexts == {<<104, 105>>, <<255>>}

Nonces == {[i \in 1..NONCE_SIZE |-> 7]}

PlainValues == {StringV(<<"h", "i">>), IntegerV(30)}

SeqEnvs == {"Development", "Production"}

\* one past the versions the bound lets a history hold: never present
TargetVersions == 1..(MaxVersionFiles + 1)

NoCall == Call("none", <<>>, <<>>, "Base", "None", "Ok", "None")

\* requests when no history is kept
NoHistory == <<[kind |-> "none"]>>

\* RateLimitConfig::default()
RateLimitConfig_default ==
    [authenticated_rps |-> 100, unauthenticated_rps |-> 10, burst_size |-> 50,
     window_seconds |-> 60, ban_duration_seconds |-> 3600, ban_threshold |-> 10]

\* small configurations: the unauthenticated limiter admits a burst of
\* burst_size / 5 = 1, a ban lasts 2 seconds and comes after 1 or 2 violations
LimiterConfigs ==
    {[authenticated_rps |-> 10, unauthenticated_rps |-> 1, burst_size |-> burst_size,
      window_seconds |-> 60, ban_duration_seconds |-> 2, ban_threshold |-> ban_threshold] :
        burst_size \in {5}, ban_threshold \in {1, 2}}

\* a limiter whose rates are below its bursts: 2 authenticated requests per
\* second with a burst of 5, 1 unauthenticated request with a burst of 1
WindowConfigs ==
    {[authenticated_rps |-> 2, unauthenticated_rps |-> 1, burst_size |-> 5,
      window_seconds |-> 60, ban_duration_seconds |-> 2, ban_threshold |-> 2]}

\* the origin the strict policy allows and one it does not
AllowedOrigin == "https://example.com"

EvilOrigin == "https://evil.com"

\* a policy that blocks one address, requires TLS, allows one origin, accepts
\* requests of at most MaxRequestSize bytes and blocks the endpoints of the
\* namespace b
StrictPolicy ==
    [allowed_ip_ranges |-> {"0.0.0.0/0"}, blocked_ips |-> {"10.0.0.2"}, require_tls |-> TRUE,
     min_tls_version |-> "1.2", allowed_origins |-> {AllowedOrigin},
     max_request_size |-> MaxRequestSize, allowed_endpoints |-> {},
     blocked_endpoints |-> {<<"/", "c", "o", "n", "f", "i", "g", "s", "/", "b", "*">>}]

SecurityStates == {SecurityState_with_components(SanitizationConfig_default, StrictPolicy)}

\* small CircuitBreakers: thresholds of 1 and 2, a timeout of 0, 1 or 2 seconds
Breakers ==
    {CircuitBreaker_new(failure_threshold, success_threshold, timeout) :
        failure_threshold \in 1..MaxThreshold, success_threshold \in 1..MaxThreshold,
        timeout \in 0..MaxTimeout}

\* ConfigManager::new(path), then with_encryption_key or not
Init ==
    /\ index = EmptyMap
    /\ configs = EmptyMap
    /\ versions = <<>>
    /\ nextId = 1
    /\ encryption_key \in {NoKey, SecretKey(3)}
    /\ lastOp = NoCall
    /\ faults = 0
    /\ threads = EmptyMap
    /\ observed = EmptyMap
    /\ l1 \in {L1Cache_new(max_size) : max_size \in 0..MaxL1Size}
    /\ l2 = L2Cache_new(EmptyMap)
    /\ rate_limiter \in
          {RateLimiter_new(config) :
              config \in LimiterConfigs \cup WindowConfigs \cup {RateLimitConfig_default}}
    /\ clock = 0
    /\ requests \in {<<>>, NoHistory}
    /\ admitted \in {NoWindow, [NoWindow EXCEPT !.counting = TRUE]}
    /\ audit = AuditLogger_new
    /\ breaker \in {CircuitBreaker_default_config} \cup Breakers
    /\ security \in {SecurityState_new} \cup SecurityStates

\* nothing counted for the limiter, the default CircuitBreaker and SecurityState
NoServices ==
    /\ admitted = NoWindow
    /\ breaker = CircuitBreaker_default_config
    /\ security = SecurityState_new

\* no CacheManager and no RateLimiter beside the ConfigManager
ManagerAlone ==
    /\ NoServices
    /\ l1 = L1Cache_new(0)
    /\ requests = <<>>
    /\ rate_limiter = RateLimiter_new(RateLimitConfig_default)

\* ConfigManager::new(path) alone
InitNoKey == Init /\ encryption_key = NoKey /\ ManagerAlone

(***************************************************************************)
(* Spec: the mutating calls of one ConfigManager, one after the other, no   *)
(* step of the filesystem failing, and restarts of the storage.             *)
(***************************************************************************)
Next ==
    \/ \E namespace \in Namespaces, key \in Keys, env \in SeqEnvs :
          \/ \E value \in PlainValues, user \in Users :
                ConfigManager_set(namespace, key, value, env, user, "none", "none")
          \/ ConfigManager_delete(namespace, key, env, "none")
          \/ \E target_version \in TargetVersions :
                ConfigManager_rollback(namespace, key, env, target_version, "none", "none")
    \/ Restart

Spec == InitNoKey /\ [][Next]_vars

(***************************************************************************)
(* SpecWrites: only set and rollback, every call succeeding.                *)
(***************************************************************************)
NextWrites ==
    \E namespace \in Namespaces, key \in Keys, env \in SeqEnvs :
        \/ \E value \in PlainValues, user \in Users :
              ConfigManager_set(namespace, key, value, env, user, "none", "none")
        \/ \E target_version \in TargetVersions :
              ConfigManager_rollback(namespace, key, env, target_version, "none", "none")

SpecWrites == InitNoKey /\ [][NextWrites]_vars

(***************************************************************************)
(* SpecFaults: the mutating calls of one ConfigManager, each filesystem     *)
(* step of a call free to fail (the call then returns Err).                 *)
(***************************************************************************)
StorageFaults == {"none", "create", "write", "sync", "rename"}

VersionFaults == {"none", "create", "write", "sync"}

DeleteFaults == {"none", "remove"}

FaultEnvs == {"Development"}

FaultValues == {IntegerV(30)}

\* the storage write fails, or it succeeds and the snapshot may fail
CallFaults ==
    {<<sf, "none">> : sf \in StorageFaults} \cup {<<"none", vf>> : vf \in VersionFaults}

NextFaults ==
    \E namespace \in Namespaces, key \in Keys, env \in FaultEnvs :
        \/ \E value \in FaultValues, user \in Users, f \in CallFaults :
              ConfigManager_set(namespace, key, value, env, user, f[1], f[2])
        \/ \E fault \in DeleteFaults :
              ConfigManager_delete(namespace, key, env, fault)
        \/ \E target_version \in TargetVersions, f \in CallFaults :
              ConfigManager_rollback(namespace, key, env, target_version, f[1], f[2])

SpecFaults == InitNoKey /\ [][NextFaults]_vars

(***************************************************************************)
(* The triples the claims quantify over.                                    *)
(***************************************************************************)
Triples ==
    {[namespace |-> n, key |-> k, env |-> e] : n \in Namespaces, k \in Keys, e \in Environment}

Current(idx, t) == FileStorage_get(idx, t.namespace, t.key, t.env)

History(vers, t) == get_history(vers, t.namespace, t.key, t.env)

CallTriple(c) == [namespace |-> c.namespace, key |-> c.key, env |-> c.env]

IsPrefix(s, t) == Len(s) <= Len(t) /\ SubSeq(t, 1, Len(s)) = s

Mutated(c) == c.op \in {"set", "set_secret", "rollback"} /\ c.res = "Ok" /\ c.ret # NoEntry

(***************************************************************************)
(* C1: after any sequence of successful set and rollback calls, whenever    *)
(* get returns an entry for a triple, its version is the largest version    *)
(* among the records get_history returns for the triple.                    *)
(***************************************************************************)
C1_CurrentVersionIsLargest ==
    \A t \in Triples :
        LET g == get(index, encryption_key, t.namespace, t.key, t.env)
            h == History(versions, t)
        IN  g.ok /\ g.entry # NoEntry =>
                /\ h # {}
                /\ g.entry.version = SetMax({r.version : r \in h})

C1_Witness ==
    /\ lastOp.op = "rollback"
    /\ lastOp.res = "Ok"
    /\ Current(index, CallTriple(lastOp)) # NoEntry
    /\ Current(index, CallTriple(lastOp)).version = 3
    /\ Cardinality(History(versions, CallTriple(lastOp))) = 3

(***************************************************************************)
(* C2: a step that replaces the current entry of a triple (set on an        *)
(* existing entry, or rollback) keeps the entry id and makes the version    *)
(* the previous version plus 1.                                             *)
(***************************************************************************)
C2_ReplaceKeepsIdAndAddsOne ==
    [][\A t \in Triples :
          (Current(index, t) # NoEntry /\ Current(index', t) # NoEntry
              /\ Current(index', t) # Current(index, t))
          => /\ Current(index', t).id = Current(index, t).id
             /\ Current(index', t).version = Current(index, t).version + 1]_vars

(***************************************************************************)
(* C3: every successful mutation (create, update, rollback) appends exactly *)
(* one version record, of the triple and with the version of the entry      *)
(* written; no call removes or alters a file of versions/.                  *)
(***************************************************************************)
C3_HistoryAppendOnly ==
    [][/\ IsPrefix(versions, versions')
       /\ Mutated(lastOp') =>
             /\ Len(versions') = Len(versions) + 1
             /\ versions'[Len(versions')].complete
             /\ VersionFiles(versions', lastOp'.namespace, lastOp'.key, lastOp'.env)
                   = VersionFiles(versions, lastOp'.namespace, lastOp'.key, lastOp'.env)
                       \cup {Len(versions')}
             /\ VersionAt(versions', Len(versions')).version = lastOp'.ret.version
             /\ Current(index', CallTriple(lastOp')) = lastOp'.ret]_vars

C3_Witness ==
    /\ lastOp.op = "rollback"
    /\ Mutated(lastOp)
    /\ Len(versions) = 3
    /\ \E i \in DOMAIN versions : ~versions[i].complete

(***************************************************************************)
(* C4: a set or rollback that returns an error leaves the current entry of  *)
(* the triple and its history as they were before the call.                 *)
(***************************************************************************)
C4_AllOrNothing ==
    [][(lastOp'.op \in {"set", "rollback"} /\ lastOp'.res = "Err")
          => /\ Current(index', CallTriple(lastOp')) = Current(index, CallTriple(lastOp'))
             /\ History(versions', CallTriple(lastOp')) = History(versions, CallTriple(lastOp'))]_vars

(***************************************************************************)
(* SpecStorage: the calls of FileStorage itself.  A set may fail at a step  *)
(* (res "Err") or the process may end at it (res "Died"): the index is then *)
(* gone and only a restart follows.                                         *)
(***************************************************************************)
Died == lastOp.res = "Died"

FileStorage_set_call(config, fault, res) ==
    LET r == FileStorage_set(index, configs, config, fault)
    IN  /\ ~Died
        /\ res = "Ok" <=> fault = "none"
        /\ fault = "died" => res = "Died"
        /\ index' = r.index
        /\ configs' = r.configs
        /\ lastOp' = Call("storage_set", config.namespace, config.key, config.environment,
                          config, res, fault)
        /\ UNCHANGED <<versions, nextId, encryption_key, faults>>
        /\ SeqFrame

FileStorage_delete_call(namespace, key, env) ==
    LET d == FileStorage_delete(index, configs, namespace, key, env, "none")
    IN  /\ ~Died
        /\ index' = d.index
        /\ configs' = d.configs
        /\ lastOp' = Call("storage_delete", namespace, key, env, "None", "Ok", d.removed)
        /\ UNCHANGED <<versions, nextId, encryption_key, faults>>
        /\ SeqFrame

SetFaults == {"none", "create", "write", "sync", "rename", "died"}

StorageEnvs == {"Development"}

\* the entries a caller hands to FileStorage::set
StorageEntries ==
    {[ConfigEntry_new(id, n, k, v, e) EXCEPT !.version = ver] :
        id \in {1}, n \in Namespaces, k \in Keys, v \in PlainValues,
        e \in StorageEnvs, ver \in 1..MaxStorageVersion}

NextStorage ==
    \/ \E config \in StorageEntries, fault \in SetFaults, res \in {"Ok", "Err", "Died"} :
          FileStorage_set_call(config, fault, res)
    \/ \E namespace \in Namespaces, key \in Keys, env \in StorageEnvs :
          FileStorage_delete_call(namespace, key, env)
    \/ Restart

SpecStorage == InitNoKey /\ [][NextStorage]_vars

(***************************************************************************)
(* C7: a FileStorage::set that fails, or during which the process ends, at  *)
(* any step leaves the entry read for the triple, at once and after a       *)
(* restart, the whole previous entry or the whole new one; a successful set *)
(* leaves the new one; the rebuild ignores every .tmp file.                 *)
(***************************************************************************)
TmpFiles(cfgs) == {p \in DOMAIN cfgs : p.ext = "tmp"}

WithoutTmp(cfgs) == [p \in (DOMAIN cfgs) \ TmpFiles(cfgs) |-> cfgs[p]]

C7_StorageSetAtomic ==
    [][lastOp'.op = "storage_set" =>
          LET t == CallTriple(lastOp')
              new == lastOp'.arg
          IN  /\ lastOp'.res = "Err" => Current(index', t) = Current(index, t)
              /\ lastOp'.res = "Ok" =>
                    Current(index', t) = new /\ Current(rebuild_index(configs'), t) = new
              /\ Current(rebuild_index(configs'), t)
                    \in {Current(rebuild_index(configs), t), new}
              /\ rebuild_index(configs') = rebuild_index(WithoutTmp(configs'))]_vars

C7_Witness ==
    /\ lastOp.op = "storage_set"
    /\ lastOp.res = "Died"
    /\ lastOp.ret = "write"
    /\ \E p \in TmpFiles(configs) : ~configs[p].complete
    /\ Current(rebuild_index(configs), CallTriple(lastOp)) # NoEntry
    /\ Current(rebuild_index(configs), CallTriple(lastOp)) # lastOp.arg

(***************************************************************************)
(* C8: a successful rollback(ns, key, env, n) leaves get returning an entry *)
(* whose value is that of a history record of version n and whose version   *)
(* is the largest history version before the call plus 1, and appends       *)
(* exactly one record, described "Rollback to version n".                   *)
(***************************************************************************)
C8_RollbackRestores ==
    [][(lastOp'.op = "rollback" /\ lastOp'.res = "Ok" /\ lastOp'.ret # NoEntry) =>
          LET t == CallTriple(lastOp')
              n == lastOp'.arg
              g == get(index', encryption_key', t.namespace, t.key, t.env)
              before == History(versions, t)
          IN  /\ g.ok /\ g.entry # NoEntry
              /\ g.entry.value \in {r.value : r \in {h \in before : h.version = n}}
              /\ g.entry.version = SetMax({r.version : r \in before}) + 1
              /\ IsPrefix(versions, versions')
              /\ Len(versions') = Len(versions) + 1
              /\ Len(versions') \in VersionFiles(versions', t.namespace, t.key, t.env)
              /\ VersionAt(versions', Len(versions')).change_description
                    = <<"Rollback to version ", n>>
              /\ VersionAt(versions', Len(versions')).value = g.entry.value]_vars

C8_Witness ==
    /\ lastOp.op = "rollback"
    /\ lastOp.res = "Ok"
    /\ lastOp.arg = 1
    /\ lastOp.ret # NoEntry
    /\ Current(index, CallTriple(lastOp)).version = 3
    /\ \E r \in History(versions, CallTriple(lastOp)) :
          r.version = 2 /\ r.value # Current(index, CallTriple(lastOp)).value

(***************************************************************************)
(* C9: a rollback to a version no history record of the triple carries      *)
(* returns None and changes neither the index, nor configs/, nor versions/. *)
(***************************************************************************)
C9_RollbackToMissingVersion ==
    [][(lastOp'.op = "rollback"
          /\ lastOp'.arg \notin {r.version : r \in History(versions, CallTriple(lastOp'))})
          => /\ lastOp'.res = "Ok"
             /\ lastOp'.ret = NoEntry
             /\ index' = index
             /\ configs' = configs
             /\ versions' = versions]_vars

C9_Witness ==
    /\ lastOp.op = "rollback"
    /\ lastOp.ret = NoEntry
    /\ lastOp.arg = 3
    /\ Current(index, CallTriple(lastOp)) # NoEntry
    /\ Cardinality(History(versions, CallTriple(lastOp))) = 2

(***************************************************************************)
(* SpecSecrets: a ConfigManager with an encryption key; secrets and plain   *)
(* values are written, read back and listed, and the storage is restarted.  *)
(***************************************************************************)
InitKey == Init /\ encryption_key # NoKey /\ ManagerAlone

SecretEnvs == {"Production"}

NextSecrets ==
    \/ \E namespace \in Namespaces, key \in Keys, env \in SecretEnvs :
          \/ \E plaintext \in Plaintexts, user \in Users, nonce \in Nonces :
                ConfigManager_set_secret(namespace, key, plaintext, env, user, nonce,
                                         "none", "none")
          \/ \E value \in PlainValues, user \in Users :
                ConfigManager_set(namespace, key, value, env, user, "none", "none")
          \/ ConfigManager_get(namespace, key, env)
          \/ ConfigManager_get_secret(namespace, key, env)
          \/ ConfigManager_get_history(namespace, key, env)
    \/ Restart

SpecSecrets == InitKey /\ [][NextSecrets]_vars

(***************************************************************************)
(* C6: records round-trip through their JSON form.  A successful set_secret *)
(* leaves on disk an entry file and a version record that read back as the  *)
(* Secret written, and a restart changes the result of no get_secret.       *)
(***************************************************************************)
C6_SecretRoundTrip ==
    [][/\ (lastOp'.op = "set_secret" /\ lastOp'.res = "Ok") =>
             /\ is_secret(lastOp'.ret.value)
             /\ Current(rebuild_index(configs'), CallTriple(lastOp')) = lastOp'.ret
             /\ VersionAt(versions', Len(versions')).value = lastOp'.ret.value
       /\ lastOp'.op = "restart" =>
             \A t \in Triples :
                get_secret(index', encryption_key', t.namespace, t.key, t.env)
                   = get_secret(index, encryption_key, t.namespace, t.key, t.env)]_vars

(***************************************************************************)
(* SpecOverrides: entries of one key written and deleted in all the         *)
(* environments, each plain value naming its environment, and read back     *)
(* through get_with_overrides.                                              *)
(***************************************************************************)
OverrideSecretEnvs == {"Staging"}

OverrideDeleteEnvs == {"Staging", "Production"}

NextOverrides ==
    \E namespace \in Namespaces, key \in Keys :
        \/ \E env \in Environment, user \in Users :
              ConfigManager_set(namespace, key, StringV(<<EnvDisplay(env)>>), env, user,
                                "none", "none")
        \/ \E env \in OverrideSecretEnvs, plaintext \in Plaintexts,
                 user \in Users, nonce \in Nonces :
              ConfigManager_set_secret(namespace, key, plaintext, env, user, nonce,
                                       "none", "none")
        \/ \E env \in OverrideDeleteEnvs : ConfigManager_delete(namespace, key, env, "none")
        \/ \E env \in Environment : ConfigManager_get_with_overrides(namespace, key, env)

SpecOverrides == InitKey /\ [][NextOverrides]_vars

\* the order of the environments get_with_overrides(_, _, env) consults
ChainOrder(env) ==
    <<"Base">> \o (CASE env = "Base" -> <<>>
                     [] env = "Development" -> <<"Development">>
                     [] env = "Staging" -> <<"Development", "Staging">>
                     [] env = "Production" -> <<"Development", "Staging", "Production">>
                     [] env = "Edge" -> <<"Edge">>)

\* the value of the last environment of the order that has a current entry
LastPresent(idx, namespace, key, env) ==
    LET order == ChainOrder(env)
        at(i) == FileStorage_get(idx, namespace, key, order[i])
        present == {i \in DOMAIN order : at(i) # NoEntry}
    IN  IF present = {} THEN NoValue ELSE at(SetMax(present)).value

\* what a manager holding ekey returns for that value: a Secret is decrypted
\* to a String when a key is loaded, an error when that is not possible
Returned(ekey, value) ==
    IF value # NoValue /\ is_secret(value) /\ ekey # NoKey
    THEN LET d == decrypt(ekey, value.val)
         IN  IF d.ok /\ from_utf8(d.plaintext).ok
             THEN [res |-> "Ok", value |-> StringV(from_utf8(d.plaintext).s)]
             ELSE [res |-> "Err", value |-> NoValue]
    ELSE [res |-> "Ok", value |-> value]

(***************************************************************************)
(* C10 as stated: get_with_overrides returns the value of the last          *)
(* environment, in the order Base then the chain of env, that has a current *)
(* entry, None when none has, and reads no other environment.               *)
(***************************************************************************)
C10_AsStated ==
    lastOp.op = "get_with_overrides" =>
        /\ lastOp.res = "Ok"
        /\ lastOp.ret.value = LastPresent(index, lastOp.namespace, lastOp.key, lastOp.env)
        /\ SeqRange(lastOp.ret.reads) \subseteq SeqRange(ChainOrder(lastOp.env))

(***************************************************************************)
(* C10 amended: the value returned is that of the last environment of the   *)
(* order that has a current entry, except that with an encryption key       *)
(* loaded a Secret is returned decrypted as a String, and the call fails    *)
(* when the plaintext is not UTF-8; no other environment is read.           *)
(***************************************************************************)
C10_LastPresentWins ==
    lastOp.op = "get_with_overrides" =>
        LET expected == Returned(encryption_key,
                                 LastPresent(index, lastOp.namespace, lastOp.key, lastOp.env))
        IN  /\ lastOp.res = expected.res
            /\ lastOp.ret.value = expected.value
            /\ SeqRange(lastOp.ret.reads) \subseteq SeqRange(ChainOrder(lastOp.env))

C10_Witness ==
    /\ lastOp.op = "get_with_overrides"
    /\ lastOp.env = "Production"
    /\ lastOp.res = "Ok"
    /\ encryption_key # NoKey
    /\ lastOp.ret.value = StringV(<<"h", "i">>)
    /\ Current(index, [namespace |-> lastOp.namespace, key |-> lastOp.key,
                       env |-> "Development"]) # NoEntry
    /\ Current(index, [namespace |-> lastOp.namespace, key |-> lastOp.key,
                       env |-> "Edge"]) # NoEntry

(***************************************************************************)
(* SpecThreads: threads sharing one ConfigManager.  A set or rollback runs  *)
(* as the steps of its code, each of them atomic (a lock of the index held, *)
(* or one call of the filesystem; the create, write and sync of a file      *)
(* count as one), and steps of different threads interleave.  threads maps  *)
(* a thread inside a call to its program counter and its locals; observed   *)
(* maps a storage key to the version the reader's last get returned.        *)
(***************************************************************************)
ThreadIds == {"t1", "t2"}

ThreadEnvs == {"Development"}

ThreadValues == {IntegerV(30)}

ThreadTargets == {1}

ThreadFrame ==
    UNCHANGED <<encryption_key, lastOp, faults, l1, l2, rate_limiter, clock, requests,
                admitted, audit, breaker, security>>

\* calls begun and not yet recorded in versions/
CallsBegun == Len(versions) + Cardinality(DOMAIN threads)

\* ConfigManager::set up to "Save to storage": storage.get under the read
\* lock of the index, then the entry built from what it returned
Thread_set_begin(th, namespace, key, value, env, user) ==
    LET existing == FileStorage_get(index, namespace, key, env)
        entry == set_entry(existing, nextId, namespace, key, value, env, user)
    IN  /\ th \notin DOMAIN threads
        /\ CallsBegun < MaxVersionFiles
        /\ existing = NoEntry => nextId <= MaxIds
        /\ nextId' = IF existing = NoEntry THEN nextId + 1 ELSE nextId
        /\ threads' = MapPut(threads, th, [pc |-> "write_temp", config |-> entry,
                                            description |-> <<"Configuration updated">>])
        /\ UNCHANGED <<index, configs, versions, observed>>
        /\ ThreadFrame

\* VersionControl::rollback up to storage.set: the history read and searched
Thread_rollback_begin(th, namespace, key, env, target_version) ==
    LET history == get_history(versions, namespace, key, env)
    IN  /\ th \notin DOMAIN threads
        /\ CallsBegun < MaxVersionFiles
        /\ nextId <= MaxIds
        /\ \E version \in rollback_targets(history, target_version) :
              threads' = MapPut(threads, th,
                                [pc |-> "write_temp",
                                 config |-> rollback_entry(history, nextId, version),
                                 description |-> <<"Rollback to version ", target_version>>])
        /\ nextId' = nextId + 1
        /\ UNCHANGED <<index, configs, versions, observed>>
        /\ ThreadFrame

\* write_config_atomically: the temporary file created, written and synced
Thread_write_temp(th) ==
    /\ th \in DOMAIN threads
    /\ threads[th].pc = "write_temp"
    /\ LET config == threads[th].config
           path == config_file_path(config.namespace, config.key, config.environment)
       IN  configs' = MapPut(configs, temp_path(path), WholeFile(EntryToJson(config)))
    /\ threads' = [threads EXCEPT ![th].pc = "rename"]
    /\ UNCHANGED <<index, versions, nextId, observed>>
    /\ ThreadFrame

\* fs::rename(temp, path): it fails, and the call with it, when another
\* thread has renamed the shared temporary file away
Thread_rename(th) ==
    /\ th \in DOMAIN threads
    /\ threads[th].pc = "rename"
    /\ LET config == threads[th].config
           path == config_file_path(config.namespace, config.key, config.environment)
           temp == temp_path(path)
       IN  IF temp \in DOMAIN configs
           THEN /\ configs' = MapPut(MapRemove(configs, temp), path, configs[temp])
                /\ threads' = [threads EXCEPT ![th].pc = "index_insert"]
           ELSE /\ configs' = configs
                /\ threads' = MapRemove(threads, th)
    /\ UNCHANGED <<index, versions, nextId, observed>>
    /\ ThreadFrame

\* FileStorage::set, "Update index": insert under the write lock
Thread_index_insert(th) ==
    /\ th \in DOMAIN threads
    /\ threads[th].pc = "index_insert"
    /\ LET config == threads[th].config
       IN  index' = MapPut(index,
                           make_key(config.namespace, config.key, config.environment),
                           config)
    /\ threads' = [threads EXCEPT ![th].pc = "create_snapshot"]
    /\ UNCHANGED <<configs, versions, nextId, observed>>
    /\ ThreadFrame

\* create_snapshot, and the call returns
Thread_create_snapshot(th) ==
    /\ th \in DOMAIN threads
    /\ threads[th].pc = "create_snapshot"
    /\ versions' = create_snapshot(versions, threads[th].config,
                                   threads[th].description, "none").versions
    /\ threads' = MapRemove(threads, th)
    /\ UNCHANGED <<index, configs, nextId, observed>>
    /\ ThreadFrame

\* the reader thread: one ConfigManager::get, its version noted
Reader_get(namespace, key, env) ==
    LET r == get(index, encryption_key, namespace, key, env)
    IN  /\ r.ok
        /\ r.entry # NoEntry
        /\ observed' = MapPut(observed, make_key(namespace, key, env), r.entry.version)
        /\ UNCHANGED <<index, configs, versions, nextId, threads>>
        /\ ThreadFrame

NextThreads ==
    \/ \E th \in ThreadIds, namespace \in Namespaces, key \in Keys, env \in ThreadEnvs :
          \/ \E value \in ThreadValues, user \in Users :
                Thread_set_begin(th, namespace, key, value, env, user)
          \/ \E target_version \in ThreadTargets :
                Thread_rollback_begin(th, namespace, key, env, target_version)
    \/ \E th \in ThreadIds :
          \/ Thread_write_temp(th)
          \/ Thread_rename(th)
          \/ Thread_index_insert(th)
          \/ Thread_create_snapshot(th)
    \/ \E namespace \in Namespaces, key \in Keys, env \in ThreadEnvs :
          Reader_get(namespace, key, env)

SpecThreads == InitNoKey /\ [][NextThreads]_vars

(***************************************************************************)
(* C5: with several threads inside set or rollback on one triple, the       *)
(* versions a reader sees in successive gets of the triple never decrease.  *)
(***************************************************************************)
C5_ObservedVersionsNonDecreasing ==
    [][\A k \in DOMAIN observed \cap DOMAIN observed' : observed'[k] >= observed[k]]_vars

(***************************************************************************)
(* C11: with a key loaded, after set_secret of a UTF-8 plaintext p, get     *)
(* returns the entry with value String(p) and get_secret returns the bytes  *)
(* p, while the entry the storage holds keeps its Secret value; after set   *)
(* of a plain value get returns that value; get and get_secret leave the    *)
(* storage as it is.                                                        *)
(***************************************************************************)
C11_SecretReadBack ==
    [][LET t == CallTriple(lastOp')
           g == get(index', encryption_key', t.namespace, t.key, t.env)
           s == get_secret(index', encryption_key', t.namespace, t.key, t.env)
       IN  /\ (lastOp'.op = "set_secret" /\ lastOp'.res = "Ok" /\ from_utf8(lastOp'.arg).ok) =>
                 /\ g.ok
                 /\ g.entry = [lastOp'.ret EXCEPT !.value = StringV(from_utf8(lastOp'.arg).s)]
                 /\ s.ok
                 /\ s.plaintext = lastOp'.arg
                 /\ is_secret(Current(index', t).value)
           /\ (lastOp'.op = "set" /\ lastOp'.res = "Ok") =>
                 g.ok /\ g.entry.value = lastOp'.arg
           /\ lastOp'.op \in {"get", "get_secret"} =>
                 /\ index' = index
                 /\ lastOp'.op = "get" =>
                       lastOp'.res = Result(g.ok) /\ (g.ok => lastOp'.ret = g.entry)
                 /\ lastOp'.op = "get_secret" =>
                       lastOp'.res = Result(s.ok) /\ lastOp'.ret = s.plaintext]_vars

C11_Witness ==
    /\ lastOp.op = "get"
    /\ lastOp.res = "Ok"
    /\ lastOp.ret # NoEntry
    /\ lastOp.ret.value = StringV(<<"h", "i">>)
    /\ lastOp.ret.version = 2
    /\ is_secret(Current(index, CallTriple(lastOp)).value)

(***************************************************************************)
(* C12: delete returns true exactly when the triple had a current entry; a  *)
(* get that follows returns None; the entries of the other triples and the  *)
(* files of versions/, so the history of the triple, stay as they were.     *)
(***************************************************************************)
C12_DeleteFrame ==
    [][lastOp'.op = "delete" =>
          LET t == CallTriple(lastOp')
          IN  /\ lastOp'.res = "Ok"
              /\ lastOp'.ret = (Current(index, t) # NoEntry)
              /\ get(index', encryption_key', t.namespace, t.key, t.env)
                    = [ok |-> TRUE, entry |-> NoEntry]
              /\ \A o \in Triples \ {t} : Current(index', o) = Current(index, o)
              /\ versions' = versions
              /\ History(versions', t) = History(versions, t)]_vars

C12_Witness ==
    /\ lastOp.op = "delete"
    /\ lastOp.ret = TRUE
    /\ Cardinality(History(versions, CallTriple(lastOp))) = 2
    /\ \E o \in Triples \ {CallTriple(lastOp)} : Current(index, o) # NoEntry

(***************************************************************************)
(* SpecL1: the calls of one L1Cache of max_size >= 1, one after the other.  *)
(* lastOp records the call: arg is what Utc::now() returned inside it, ret  *)
(* the entry a get returned, or the cache keys a put removed.               *)
(***************************************************************************)
ManagerFrame ==
    UNCHANGED <<index, configs, versions, nextId, encryption_key, audit, breaker, security>>

LimiterFrame == UNCHANGED <<rate_limiter, clock, requests, admitted>>

CacheNamespace == <<"a">>

CacheKeys == {<<"k">>, <<"m">>, <<"n">>}

CacheEnvs == {"development"}

CacheTimes == 1..MaxCacheTime

CacheEntries ==
    {ConfigEntry_new(1, CacheNamespace, key, IntegerV(30), "Development") : key \in CacheKeys}

GetsCounted == l1.hit_count + l1.miss_count

L1_get(namespace, key, env, now) ==
    LET got == L1Cache_get(l1, namespace, key, env, now)
    IN  /\ GetsCounted < MaxCacheGets
        /\ l1' = got.l1
        /\ lastOp' = Call("l1_get", namespace, key, env, now, Result(got.ok), got.entry)
        /\ UNCHANGED <<l2, faults, threads, observed>>
        /\ ManagerFrame /\ LimiterFrame

L1_put(entry, now) ==
    \E c \in L1Cache_put(l1, entry, now) :
        /\ l1' = c
        /\ lastOp' = Call("l1_put", entry.namespace, entry.key, EnvDisplay(entry.environment),
                          now, "Ok", DOMAIN l1.cache \ DOMAIN c.cache)
        /\ UNCHANGED <<l2, faults, threads, observed>>
        /\ ManagerFrame /\ LimiterFrame

L1_invalidate(namespace, key, env) ==
    /\ l1' = L1Cache_invalidate(l1, namespace, key, env)
    /\ lastOp' = Call("l1_invalidate", namespace, key, env, "None", "Ok", "None")
    /\ UNCHANGED <<l2, faults, threads, observed>>
    /\ ManagerFrame /\ LimiterFrame

L1_clear ==
    /\ l1' = L1Cache_clear(l1)
    /\ lastOp' = Call("l1_clear", <<>>, <<>>, "", "None", "Ok", "None")
    /\ UNCHANGED <<l2, faults, threads, observed>>
    /\ ManagerFrame /\ LimiterFrame

\* L1Cache::new(max_size) with max_size >= 1
InitL1 ==
    /\ Init
    /\ NoServices
    /\ requests = <<>>
    /\ encryption_key = NoKey
    /\ l1.max_size >= 1
    /\ rate_limiter = RateLimiter_new(RateLimitConfig_default)

NextL1 ==
    \/ \E key \in CacheKeys, env \in CacheEnvs :
          \/ \E now \in CacheTimes : L1_get(CacheNamespace, key, env, now)
          \/ L1_invalidate(CacheNamespace, key, env)
    \/ \E entry \in CacheEntries, now \in CacheTimes : L1_put(entry, now)
    \/ L1_clear

SpecL1 == InitL1 /\ [][NextL1]_vars

\* C16: in an L1Cache of max_size >= 1 the size never exceeds max_size; a put
\* leaves its key cached with the time of the put and touches no other kept
\* entry; a put of a key not cached into a full cache removes exactly one
\* entry, one whose accessed_at is the earliest, and any other put removes
\* none; a get that hits sets the entry's accessed_at to the time of the get.
C16_LruEviction ==
    [][LET k == cache_key(lastOp'.namespace, lastOp'.key, lastOp'.env)
           before == DOMAIN l1.cache
           after == DOMAIN l1'.cache
           evicted == before \ after
       IN  /\ Cardinality(after) <= l1'.max_size
           /\ lastOp'.op = "l1_put" =>
                 /\ k \in after
                 /\ l1'.cache[k].accessed_at = lastOp'.arg
                 /\ after \ before \subseteq {k}
                 /\ \A o \in after \ {k} : l1'.cache[o] = l1.cache[o]
                 /\ IF k \notin before /\ Cardinality(before) = l1.max_size
                    THEN /\ Cardinality(evicted) = 1
                         /\ \A v \in evicted : \A o \in before :
                               l1.cache[v].accessed_at <= l1.cache[o].accessed_at
                    ELSE evicted = {}
           /\ lastOp'.op = "l1_get" /\ lastOp'.res = "Ok" =>
                 /\ after = before
                 /\ l1'.cache[k].accessed_at = lastOp'.arg
                 /\ \A o \in after \ {k} : l1'.cache[o] = l1.cache[o]
      ]_vars

\* a put into a full cache of two entries has removed the entry put first,
\* whose accessed_at was the earlier, after a get had hit
C16_Witness ==
    /\ lastOp.op = "l1_put"
    /\ l1.max_size = 2
    /\ lastOp.ret # {}
    /\ Cardinality(DOMAIN l1.cache) = 2
    /\ l1.hit_count >= 1
    /\ \E a, b \in DOMAIN l1.cache : l1.cache[a].accessed_at < l1.cache[b].accessed_at

(***************************************************************************)
(* SpecCache: the calls of one CacheManager (manager.rs), one after the     *)
(* other, over an L1Cache of max_size 0..MaxL1Size and an L2Cache on an     *)
(* empty directory.  A put may meet a failing step of L2Cache::put.         *)
(***************************************************************************)
L2Faults == {"none", "create", "write", "rename"}

ManagerKeys == {<<"k">>, <<"m">>}

ManagerEntries == {entry \in CacheEntries : entry.key \in ManagerKeys}

\* CacheManager::get: L1, then L2 and the promotion to L1; now is what
\* Utc::now() returns to the L1 hit or to the promoting put
CacheManager_get(namespace, key, env, now) ==
    LET first == L1Cache_get(l1, namespace, key, env, now)
        second == L2Cache_get(l2, namespace, key, env)
    IN  /\ GetsCounted < MaxCacheGets
        /\ IF first.ok
           THEN /\ l1' = first.l1
                /\ lastOp' = Call("cache_get", namespace, key, env, now, "Ok", first.entry)
           ELSE IF second.ok
           THEN /\ l1' \in L1Cache_put(first.l1, second.entry, now)
                /\ lastOp' = Call("cache_get", namespace, key, env, now, "Ok", second.entry)
           ELSE /\ l1' = first.l1
                /\ lastOp' = Call("cache_get", namespace, key, env, now, "Err", NoEntry)
        /\ UNCHANGED <<l2, faults, threads, observed>>
        /\ ManagerFrame /\ LimiterFrame

\* CacheManager::put: self.l1.put(entry.clone())?; self.l2.put(&entry)?
CacheManager_put(entry, now, fault) ==
    LET written == L2Cache_put(l2, entry, fault)
    IN  /\ fault # "none" => faults < MaxFaults
        /\ faults' = IF fault # "none" THEN faults + 1 ELSE faults
        /\ l1' \in L1Cache_put(l1, entry, now)
        /\ l2' = written.l2
        /\ lastOp' = Call("cache_put", entry.namespace, entry.key,
                          EnvDisplay(entry.environment), now, Result(written.ok), "None")
        /\ UNCHANGED <<threads, observed>>
        /\ ManagerFrame /\ LimiterFrame

CacheManager_invalidate(namespace, key, env) ==
    /\ l1' = L1Cache_invalidate(l1, namespace, key, env)
    /\ l2' = L2Cache_invalidate(l2, namespace, key, env)
    /\ lastOp' = Call("cache_invalidate", namespace, key, env, "None", "Ok", "None")
    /\ UNCHANGED <<faults, threads, observed>>
    /\ ManagerFrame /\ LimiterFrame

CacheManager_clear ==
    /\ l1' = L1Cache_clear(l1)
    /\ l2' = L2Cache_clear(l2)
    /\ lastOp' = Call("cache_clear", <<>>, <<>>, "", "None", "Ok", "None")
    /\ UNCHANGED <<faults, threads, observed>>
    /\ ManagerFrame /\ LimiterFrame

\* CacheManager::new(l1_size, l2_dir)
InitCache ==
    /\ Init
    /\ NoServices
    /\ requests = <<>>
    /\ encryption_key = NoKey
    /\ rate_limiter = RateLimiter_new(RateLimitConfig_default)

NextCache ==
    \/ \E key \in ManagerKeys, env \in CacheEnvs :
          \/ \E now \in CacheTimes : CacheManager_get(CacheNamespace, key, env, now)
          \/ CacheManager_invalidate(CacheNamespace, key, env)
    \/ \E entry \in ManagerEntries, now \in CacheTimes, fault \in L2Faults :
          CacheManager_put(entry, now, fault)
    \/ CacheManager_clear

SpecCache == InitCache /\ [][NextCache]_vars

\* C13: between the calls of a CacheManager every cache key of tier 1 is a
\* cache key of the index of tier 2.
C13_TierOneWithinTierTwo == DOMAIN l1.cache \subseteq DOMAIN l2.index

\* C15: an L1Cache of max_size 0 holds no entry and never serves a get (its
\* hit_count stays 0), so every get that succeeds is served from tier 2.
C15_ZeroCapacityPassThrough ==
    l1.max_size = 0 => DOMAIN l1.cache = {} /\ l1.hit_count = 0

\* C17: a CacheManager::get of a key absent from tier 1 and held by tier 2
\* returns the tier-2 entry and leaves it in tier 1, whose size stays within
\* max_size; a get of a key absent from both tiers returns a miss and leaves
\* the entries of both tiers as they were.
PromotionStep ==
    lastOp'.op = "cache_get" =>
        LET k == cache_key(lastOp'.namespace, lastOp'.key, lastOp'.env)
            second == L2Cache_get(l2, lastOp'.namespace, lastOp'.key, lastOp'.env)
        IN  /\ l2' = l2
            /\ k \notin DOMAIN l1.cache /\ second.ok =>
                  /\ lastOp'.res = "Ok"
                  /\ lastOp'.ret = second.entry
                  /\ k \in DOMAIN l1'.cache
                  /\ l1'.cache[k].entry = second.entry
                  /\ Cardinality(DOMAIN l1'.cache) <= l1'.max_size
            /\ k \notin DOMAIN l1.cache /\ ~second.ok =>
                  /\ lastOp'.res = "Err"
                  /\ l1'.cache = l1.cache

C17_PromotionOnTierTwoHit == [][PromotionStep]_vars

\* the same gets on a tier 1 of max_size >= 1
PromotionWithCapacity == [][l1.max_size >= 1 => PromotionStep]_vars

(***************************************************************************)
(* SpecCachePuts: CacheManager::put called once by each of several threads  *)
(* for the same cache key.  CacheManager holds no lock of its own: L1Cache  *)
(* takes its write lock inside put, L2Cache writes and renames the temp     *)
(* file without a lock and takes the index lock for the insert alone.  A    *)
(* thread in threads is between two of these steps; observed records the    *)
(* result of the call of a thread that has returned.                        *)
(***************************************************************************)
PutEntries ==
    {ConfigEntry_new(id, CacheNamespace, <<"k">>, IntegerV(30 + id), "Development") :
        id \in 1..2}

CachePutFrame ==
    /\ UNCHANGED <<lastOp, faults>>
    /\ ManagerFrame /\ LimiterFrame

\* self.l1.put(entry.clone())?
Thread_l1_put(th, entry, now) ==
    /\ th \notin DOMAIN threads /\ th \notin DOMAIN observed
    /\ l1' \in L1Cache_put(l1, entry, now)
    /\ threads' = MapPut(threads, th, [pc |-> "temp", entry |-> entry])
    /\ UNCHANGED <<l2, observed>>
    /\ CachePutFrame

\* L2Cache::put: File::create(&temp_path), to_writer, flush
Thread_l2_temp(th) ==
    /\ th \in DOMAIN threads /\ threads[th].pc = "temp"
    /\ l2' = L2Cache_put(l2, threads[th].entry, "rename").l2
    /\ threads' = [threads EXCEPT ![th].pc = "rename"]
    /\ UNCHANGED <<l1, observed>>
    /\ CachePutFrame

\* L2Cache::put: fs::rename(temp_path, file_path)?, which fails when another
\* thread has already renamed the shared temp file away
Thread_l2_rename(th) ==
    LET entry == threads[th].entry
        path == cache_file_path(cache_key(entry.namespace, entry.key,
                                          EnvDisplay(entry.environment)))
        temp == with_extension(path, "tmp")
    IN  /\ th \in DOMAIN threads /\ threads[th].pc = "rename"
        /\ IF temp \in DOMAIN l2.files
           THEN /\ l2' = [l2 EXCEPT !.files = MapPut(MapRemove(@, temp), path, l2.files[temp])]
                /\ threads' = [threads EXCEPT ![th].pc = "index"]
                /\ UNCHANGED observed
           ELSE /\ threads' = MapRemove(threads, th)
                /\ observed' = MapPut(observed, th, "Err")
                /\ UNCHANGED l2
        /\ UNCHANGED l1
        /\ CachePutFrame

\* L2Cache::put: index.insert(cache_key, file_path) under the write lock
Thread_l2_index(th) ==
    LET entry == threads[th].entry
        k == cache_key(entry.namespace, entry.key, EnvDisplay(entry.environment))
    IN  /\ th \in DOMAIN threads /\ threads[th].pc = "index"
        /\ l2' = [l2 EXCEPT !.index = MapPut(@, k, cache_file_path(k))]
        /\ threads' = MapRemove(threads, th)
        /\ observed' = MapPut(observed, th, "Ok")
        /\ UNCHANGED l1
        /\ CachePutFrame

NextCachePuts ==
    \E th \in ThreadIds :
        \/ \E entry \in PutEntries, now \in CacheTimes : Thread_l1_put(th, entry, now)
        \/ Thread_l2_temp(th)
        \/ Thread_l2_rename(th)
        \/ Thread_l2_index(th)

SpecCachePuts == InitL1 /\ [][NextCachePuts]_vars

\* C14: when every thread's put for the one cache key has returned Ok, the
\* entry tier 1 holds for the key is the entry tier 2 returns for it.
C14_TiersAgreeAfterPuts ==
    (/\ threads = EmptyMap
     /\ DOMAIN observed = ThreadIds
     /\ \A th \in ThreadIds : observed[th] = "Ok")
    => \A k \in DOMAIN l1.cache \cup DOMAIN l2.index :
          /\ k \in DOMAIN l1.cache
          /\ k \in DOMAIN l2.index
          /\ l2.index[k] \in DOMAIN l2.files
          /\ load_config_from_file(l2.files[l2.index[k]]).ok
          /\ load_config_from_file(l2.files[l2.index[k]]).entry = l1.cache[k].entry

(***************************************************************************)
(* SpecLimiter: the calls of one RateLimiter (rate_limit.rs) and the        *)
(* passing of time.  clock is Instant::now() in seconds.  requests is the   *)
(* history of check_request calls and seconds passed, kept only when the    *)
(* behaviour starts with a history (NoHistory otherwise).                   *)
(***************************************************************************)
IpAddrs == {"10.0.0.1", "10.0.0.2"}

BanReasons == {"manual"}

CacheFrame == UNCHANGED <<l1, l2>>

LimiterFrameOthers ==
    /\ UNCHANGED <<faults, threads, observed>>
    /\ ManagerFrame /\ CacheFrame

Recorded(event) == IF requests = NoHistory THEN requests ELSE Append(requests, event)

HistoryRoom == requests # NoHistory => Len(requests) < MaxRequests

ViolationsOf(rl, ip) ==
    IF ip \in DOMAIN rl.per_ip_limiters THEN rl.per_ip_limiters[ip].violations ELSE 0

\* the rate nonzero! takes for the IpLimiter of a first request is not 0
QuotaNonZero(rl, ip, authenticated) ==
    \/ ip \in DOMAIN rl.per_ip_limiters
    \/ IpLimiter_new(rl.config, authenticated, 0).limiter.rate >= 1

\* RateLimiter::check_request for an address with fewer violations than the cap
check_request_call(ip, authenticated, max_violations) ==
    LET checked == check_request(rate_limiter, ip, authenticated, clock)
    IN  /\ HistoryRoom
        /\ QuotaNonZero(rate_limiter, ip, authenticated)
        /\ ViolationsOf(rate_limiter, ip) < max_violations
        /\ rate_limiter' = checked.limiter
        /\ lastOp' = Call("check_request", <<>>, <<>>, "",
                          [ip |-> ip, authenticated |-> authenticated],
                          Result(checked.ok), checked.why)
        /\ requests' = Recorded([kind |-> "check_request", ip |-> ip,
                                 authenticated |-> authenticated])
        /\ admitted' = Counted(admitted, authenticated, checked.ok)
        /\ UNCHANGED clock
        /\ LimiterFrameOthers

RateLimiter_check_request(ip, authenticated) ==
    check_request_call(ip, authenticated, MaxViolations)

\* RateLimiter::ban: ban_ip(ip, reason, 0)
RateLimiter_ban(ip, reason) ==
    /\ requests = NoHistory
    /\ rate_limiter' = ban_ip(rate_limiter, ip, reason, 0, clock)
    /\ lastOp' = Call("ban", <<>>, <<>>, "", [ip |-> ip], "Ok", "None")
    /\ UNCHANGED <<clock, requests, admitted>>
    /\ LimiterFrameOthers

RateLimiter_unban(ip) ==
    /\ requests = NoHistory
    /\ rate_limiter' = unban(rate_limiter, ip)
    /\ lastOp' = Call("unban", <<>>, <<>>, "", [ip |-> ip], "Ok", "None")
    /\ UNCHANGED <<clock, requests, admitted>>
    /\ LimiterFrameOthers

RateLimiter_cleanup ==
    /\ requests = NoHistory
    /\ rate_limiter' = cleanup(rate_limiter, clock)
    /\ lastOp' = Call("cleanup", <<>>, <<>>, "", "None", "Ok", "None")
    /\ UNCHANGED <<clock, requests, admitted>>
    /\ LimiterFrameOthers

\* one second passes
Tick ==
    /\ HistoryRoom
    /\ clock < MaxClock
    /\ clock' = clock + 1
    /\ rate_limiter' = elapse(rate_limiter, 1)
    /\ lastOp' = Call("tick", <<>>, <<>>, "", "None", "Ok", "None")
    /\ requests' = Recorded([kind |-> "tick"])
    /\ admitted' = Shifted(admitted)
    /\ LimiterFrameOthers

\* RateLimiter::new(config) for the small configurations
InitLimiter ==
    /\ Init
    /\ NoServices
    /\ encryption_key = NoKey
    /\ l1 = L1Cache_new(0)
    /\ rate_limiter.config \in LimiterConfigs
    /\ requests = NoHistory

\* both addresses send requests without credentials
Requesters == {[ip |-> ip, authenticated |-> FALSE] : ip \in IpAddrs}

NextLimiter ==
    \/ \E from \in Requesters : RateLimiter_check_request(from.ip, from.authenticated)
    \/ \E ip \in IpAddrs :
          \/ \E reason \in BanReasons : RateLimiter_ban(ip, reason)
          \/ RateLimiter_unban(ip)
    \/ RateLimiter_cleanup
    \/ Tick

SpecLimiter == InitLimiter /\ [][NextLimiter]_vars

BannedMessage == "IP address is temporarily banned"

\* the ban of ip recorded in rl has not run out at the time now
BanRunning(rl, ip, now) ==
    /\ ip \in DOMAIN rl.banned_ips
    /\ now - rl.banned_ips[ip].banned_at < rl.config.ban_duration_seconds

\* C18: a violation that brings an IP's counter to ban_threshold bans the IP
\* at that time; a ban that has not run out stays, with the same or a later
\* start, through every step but unban of that IP; a check_request from an
\* IP whose ban has not run out is rejected as banned and changes nothing;
\* a check_request from an IP whose ban has run out (ban_duration_seconds
\* or more since it began) is not rejected as banned.
C18_BanHolds ==
    [][\A ip \in IpAddrs :
        LET from_ip == lastOp'.op = "check_request" /\ lastOp'.arg.ip = ip
            unbanned == lastOp'.op = "unban" /\ lastOp'.arg.ip = ip
        IN  /\ (/\ ViolationsOf(rate_limiter', ip) > ViolationsOf(rate_limiter, ip)
                /\ ViolationsOf(rate_limiter', ip) >= rate_limiter.config.ban_threshold)
               => /\ ip \in DOMAIN rate_limiter'.banned_ips
                  /\ rate_limiter'.banned_ips[ip].banned_at = clock
            /\ BanRunning(rate_limiter, ip, clock) /\ ~unbanned
               => /\ ip \in DOMAIN rate_limiter'.banned_ips
                  /\ rate_limiter'.banned_ips[ip].banned_at
                        >= rate_limiter.banned_ips[ip].banned_at
            /\ from_ip /\ BanRunning(rate_limiter, ip, clock)
               => /\ lastOp'.res = "Err"
                  /\ lastOp'.ret = BannedMessage
                  /\ rate_limiter' = rate_limiter
            /\ from_ip /\ ~BanRunning(rate_limiter, ip, clock)
               => lastOp'.ret # BannedMessage
      ]_vars

\* an IP banned for its violations is rejected as banned one second into
\* the ban, and its ban was set by record_violation (violations >= 1)
C18_Witness ==
    /\ lastOp.op = "check_request"
    /\ lastOp.ret = BannedMessage
    /\ lastOp.arg.ip \in DOMAIN rate_limiter.banned_ips
    /\ rate_limiter.banned_ips[lastOp.arg.ip].violations >= 1
    /\ clock = rate_limiter.banned_ips[lastOp.arg.ip].banned_at + 1

\* C19: a check_request rejected by the global or by the per-IP limiter
\* adds one to the violations counted for its IP (none counted before: 0),
\* and the IP is banned from then on when the count has reached
\* ban_threshold.
C19_EveryRejectionCounts ==
    [][(/\ lastOp'.op = "check_request"
        /\ lastOp'.res = "Err"
        /\ lastOp'.ret # BannedMessage)
       => LET ip == lastOp'.arg.ip
          IN  /\ ViolationsOf(rate_limiter', ip) = ViolationsOf(rate_limiter, ip) + 1
              /\ ViolationsOf(rate_limiter', ip) >= rate_limiter.config.ban_threshold
                    => BanRunning(rate_limiter', ip, clock)
      ]_vars

(***************************************************************************)
(* SpecHistories: check_request calls from two IPs and seconds passing,     *)
(* with the history kept in requests.  Replay computes from a history what  *)
(* a RateLimiter::new(config) answers to each of its calls, so that two     *)
(* histories can be compared.                                               *)
(***************************************************************************)
InitHistories ==
    /\ Init
    /\ NoServices
    /\ encryption_key = NoKey
    /\ l1 = L1Cache_new(0)
    /\ rate_limiter.config \in LimiterConfigs
    /\ requests = <<>>

NextHistories ==
    \/ \E from \in Requesters : RateLimiter_check_request(from.ip, from.authenticated)
    \/ Tick

SpecHistories == InitHistories /\ [][NextHistories]_vars

RECURSIVE Replay(_, _)
Replay(config, history) ==
    IF history = <<>>
    THEN [limiter |-> RateLimiter_new(config), clock |-> 0, results |-> <<>>]
    ELSE LET before == Replay(config, SubSeq(history, 1, Len(history) - 1))
             event == history[Len(history)]
             checked == check_request(before.limiter, event.ip, event.authenticated,
                                      before.clock)
         IN  IF event.kind = "tick"
             THEN [before EXCEPT !.limiter = elapse(@, 1), !.clock = @ + 1]
             ELSE [before EXCEPT !.limiter = checked.limiter,
                                 !.results = Append(@, [ip |-> event.ip, ok |-> checked.ok,
                                                        why |-> checked.why])]

\* the history without the requests of ip
Without(ip, history) ==
    SelectSeq(history, LAMBDA event : event.kind = "tick" \/ event.ip # ip)

\* what the calls of ip were answered, in order
ResultsFor(ip, history, config) ==
    SelectSeq(Replay(config, history).results, LAMBDA r : r.ip = ip)

\* the limiter of the behaviour is the limiter Replay computes from its history
ReplayIsTheLimiter ==
    requests # NoHistory =>
        /\ Replay(rate_limiter.config, requests).limiter = rate_limiter
        /\ Replay(rate_limiter.config, requests).clock = clock

GlobalMessage == "Too many requests. Please try again later"

InitWindow ==
    /\ Init
    /\ encryption_key = NoKey
    /\ l1 = L1Cache_new(0)
    /\ rate_limiter.config \in WindowConfigs
    /\ requests = NoHistory
    /\ admitted.counting
    /\ breaker = CircuitBreaker_default_config
    /\ security = SecurityState_new

WindowRequesters == {[ip |-> "10.0.0.1", authenticated |-> authenticated] :
                        authenticated \in BOOLEAN}

NextWindow ==
    \/ \E from \in WindowRequesters : RateLimiter_check_request(from.ip, from.authenticated)
    \/ Tick

SpecWindow == InitWindow /\ [][NextWindow]_vars

\* the rps of the class in the configuration
rps(config, authenticated) ==
    IF authenticated THEN config.authenticated_rps ELSE config.unauthenticated_rps

\* the successes of the class at the two ends of a window of one second
InWindow(authenticated) == admitted.previous[authenticated] + admitted.current[authenticated]

RoutePath(namespace, key) ==
    <<"/", "c", "o", "n", "f", "i", "g", "s", "/">> \o namespace \o <<"/">> \o key

\* Option::Some
Some(val) == [tag |-> "Some", val |-> val]

DigitValue(c) ==
    CASE c = "0" -> 0 [] c = "1" -> 1 [] c = "2" -> 2 [] c = "3" -> 3 [] c = "4" -> 4
      [] c = "5" -> 5 [] c = "6" -> 6 [] c = "7" -> 7 [] c = "8" -> 8 [] c = "9" -> 9
      [] OTHER -> -1

\* the number a text of decimal digits stands for
RECURSIVE decimal(_)
decimal(text) ==
    IF text = <<>> THEN 0
    ELSE 10 * decimal(SubSeq(text, 1, Len(text) - 1)) + DigitValue(text[Len(text)])

\* str::parse::<usize>().ok() of a short text
parse_usize(text) ==
    IF text = <<>> \/ \E i \in DOMAIN text : DigitValue(text[i]) < 0
    THEN NoValue
    ELSE Some(decimal(text))

\* SecurityContext::new(user_id, ip)
SecurityContext_new(user_id, ip) == [user_id |-> user_id, ip |-> ip]

Response(status, handler, context, limiter) ==
    [status |-> status, handler |-> handler, context |-> context, limiter |-> limiter]

\* get_config: the environment defaults to development; 200 with the entry,
\* 404 without one, 500 when the manager fails
get_config(idx, ekey, namespace, key) ==
    LET r == get(idx, ekey, namespace, key, "Development")
    IN  IF ~r.ok THEN 500 ELSE IF r.entry = NoEntry THEN 404 ELSE 200

\* the response of the router to a request at the time now, and the limiter
\* after it
respond(sec, rl, idx, ekey, request, now) ==
    LET is_authenticated == "authorization" \in DOMAIN request.headers
        limited == check_request(rl, request.ip, is_authenticated, now)
        is_tls == /\ "x-forwarded-proto" \in DOMAIN request.headers
                  /\ request.headers["x-forwarded-proto"] = "https"
        endpoint == RoutePath(request.namespace, request.key)
        user_id == IF "x-user-id" \in DOMAIN request.headers
                   THEN request.headers["x-user-id"] ELSE "anonymous"
        context == SecurityContext_new(user_id, request.ip)
    IN  IF ~limited.ok
        THEN Response(429, FALSE, NoValue, limited.limiter)
        ELSE IF ~check_ip(sec.policy_enforcer, request.ip)
        THEN Response(403, FALSE, NoValue, limited.limiter)
        ELSE IF ~check_tls(sec.policy_enforcer, is_tls, "1.2")
        THEN Response(426, FALSE, NoValue, limited.limiter)
        ELSE IF ~check_endpoint(sec.policy_enforcer, endpoint)
        THEN Response(403, FALSE, NoValue, limited.limiter)
        ELSE IF validate(sec.input_validator, endpoint) # "Ok"
        THEN Response(400, FALSE, NoValue, limited.limiter)
        ELSE IF /\ request.query # NoValue
                /\ validate(sec.input_validator, request.query.val) # "Ok"
        THEN Response(400, FALSE, NoValue, limited.limiter)
        ELSE Response(get_config(idx, ekey, request.namespace, request.key), TRUE, context,
                      limited.limiter)

comprehensive_security_middleware(request) ==
    LET is_authenticated == "authorization" \in DOMAIN request.headers
        response == respond(security, rate_limiter, index, encryption_key, request, clock)
    IN  /\ requests = NoHistory
        /\ QuotaNonZero(rate_limiter, request.ip, is_authenticated)
        /\ ViolationsOf(rate_limiter, request.ip) < MaxViolations
        /\ rate_limiter' = response.limiter
        /\ admitted' = Counted(admitted, is_authenticated, response.status # 429)
        /\ lastOp' = Call("request", request.namespace, request.key, "Development", request,
                          Result(response.handler),
                          [status |-> response.status, handler |-> response.handler,
                           context |-> response.context])
        /\ UNCHANGED <<clock, requests>>
        /\ LimiterFrameOthers

InitPipeline ==
    /\ Init
    /\ encryption_key = NoKey
    /\ l1 = L1Cache_new(0)
    /\ rate_limiter.config \in LimiterConfigs
    /\ requests = NoHistory
    /\ admitted = NoWindow
    /\ breaker = CircuitBreaker_default_config
    /\ security \in SecurityStates

\* the headers of a request: each of the three present or not ("" and <<>>
\* stand for a header the request does not have)
HeaderValues ==
    [x_forwarded_proto : {"", "https"},
     content_length : {<<>>, <<"2">>, <<"3">>},
     origin : {"", AllowedOrigin, EvilOrigin}]

Headers(v) ==
    LET names == {n \in {"x-forwarded-proto", "content-length", "origin"} :
                    CASE n = "x-forwarded-proto" -> v.x_forwarded_proto # ""
                      [] n = "content-length" -> v.content_length # <<>>
                      [] OTHER -> v.origin # ""}
    IN  [n \in names |->
            CASE n = "x-forwarded-proto" -> v.x_forwarded_proto
              [] n = "content-length" -> v.content_length
              [] OTHER -> v.origin]

\* the request of 10.0.0.1 over TLS for the key k of the namespace a, without
\* Content-Length, Origin and query
PlainRequest ==
    [ip |-> "10.0.0.1", headers |-> [n \in {"x-forwarded-proto"} |-> "https"],
     namespace |-> <<"a">>, key |-> <<"k">>, query |-> NoValue]

AllRequests ==
    {[ip |-> ip, headers |-> Headers(v), namespace |-> namespace, key |-> key,
      query |-> query] :
        ip \in IpAddrs, v \in HeaderValues, namespace \in {<<"a">>, <<"b">>},
        key \in {<<"k">>, <<"k", "'">>}, query \in {NoValue, Some(<<"x", "=", ";">>)}}

\* in how many of its parts a request differs from the plain one
Differences(request) ==
    Cardinality({part \in {"ip", "namespace", "key", "query"} :
                    request[part] # PlainRequest[part]})
        + Cardinality({n \in {"x-forwarded-proto", "content-length", "origin"} :
                          (n \in DOMAIN request.headers) # (n \in DOMAIN PlainRequest.headers)})

\* the requests that differ from the plain one in at most two parts
HttpRequests == {request \in AllRequests : Differences(request) <= MaxDifferences}

NextPipeline ==
    \/ \E request \in HttpRequests : comprehensive_security_middleware(request)
    \/ Tick

SpecPipeline == InitPipeline /\ [][NextPipeline]_vars


\* the stages a request violates in the current state
RateLimited(request) ==
    ~check_request(rate_limiter, request.ip, "authorization" \in DOMAIN request.headers,
                   clock).ok

IpBlocked(request) == ~check_ip(security.policy_enforcer, request.ip)

TlsViolated(request) ==
    ~check_tls(security.policy_enforcer,
               /\ "x-forwarded-proto" \in DOMAIN request.headers
               /\ request.headers["x-forwarded-proto"] = "https",
               "1.2")

EndpointDenied(request) ==
    ~check_endpoint(security.policy_enforcer, RoutePath(request.namespace, request.key))

InputInvalid(request) ==
    \/ validate(security.input_validator, RoutePath(request.namespace, request.key)) # "Ok"
    \/ /\ request.query # NoValue
       /\ validate(security.input_validator, request.query.val) # "Ok"

\* the Content-Length header is a number above max_request_size
Oversized(request) ==
    /\ "content-length" \in DOMAIN request.headers
    /\ parse_usize(request.headers["content-length"]) # NoValue
    /\ ~check_request_size(security.policy_enforcer,
                           parse_usize(request.headers["content-length"]).val)

\* the Origin header is not one the policy allows
ForeignOrigin(request) ==
    /\ "origin" \in DOMAIN request.headers
    /\ ~check_origin(security.policy_enforcer, request.headers["origin"])

\* the status of the earliest violated stage in the order rate limit, IP block,
\* TLS policy, endpoint policy, input validation, request size; 0 when no
\* stage is violated
EarliestViolation(request) ==
    IF RateLimited(request) THEN 429
    ELSE IF IpBlocked(request) THEN 403
    ELSE IF TlsViolated(request) THEN 426
    ELSE IF EndpointDenied(request) THEN 403
    ELSE IF InputInvalid(request) THEN 400
    ELSE IF Oversized(request) THEN 413
    ELSE 0

\* C22: every request is answered with the status of the earliest stage it
\* violates in the order rate limit (429), IP block (403), TLS policy (426),
\* endpoint policy (403), input validation (400), request size (413),
\* without the handler being called; a request violating no stage gets its
\* security context and reaches the handler.
C22_StagesInFixedOrder ==
    [][lastOp'.op = "request" =>
          IF EarliestViolation(lastOp'.arg) # 0
          THEN /\ lastOp'.ret.status = EarliestViolation(lastOp'.arg)
               /\ ~lastOp'.ret.handler
          ELSE /\ lastOp'.ret.handler
               /\ lastOp'.ret.context # NoValue]_vars

\* C23: a request whose Content-Length exceeds max_request_size and which
\* passes the rate limit, the IP block, the TLS policy, the endpoint policy
\* and the input validation is answered 413 and the handler is not called.
C23_OversizedIsRejected ==
    [][(/\ lastOp'.op = "request"
        /\ Oversized(lastOp'.arg)
        /\ ~RateLimited(lastOp'.arg) /\ ~IpBlocked(lastOp'.arg) /\ ~TlsViolated(lastOp'.arg)
        /\ ~EndpointDenied(lastOp'.arg) /\ ~InputInvalid(lastOp'.arg))
          => lastOp'.ret.status = 413 /\ ~lastOp'.ret.handler]_vars

\* C24: under a policy whose allowed_origins is not empty and has no "*", a
\* request with an Origin header outside the list that violates no stage of
\* the pipeline is answered 403.
C24_ForeignOriginIsRejected ==
    [][(/\ lastOp'.op = "request"
        /\ security.policy_enforcer.allowed_origins # {}
        /\ "*" \notin security.policy_enforcer.allowed_origins
        /\ ForeignOrigin(lastOp'.arg)
        /\ EarliestViolation(lastOp'.arg) = 0)
          => lastOp'.ret.status = 403]_vars


(***************************************************************************)
(* SpecAudit: one AuditLogger over a FileAuditStorage in a fresh           *)
(* directory.  Two producers call log(); the consumer task spawned by      *)
(* AuditLogger::new receives one event at a time and stores it, the store  *)
(* free to fail; query and count read audit.log at any time.               *)
(***************************************************************************)
Producers == {"p1", "p2"}

AuditTimes == 1..MaxAuditTime

\* the events of a producer among the events of a sequence
EventsOf(producer, events) == SelectSeq(events, LAMBDA e : e.id[1] = producer)

\* AuditEvent: the id (here the producer and the number of its call) and the
\* timestamp
AuditEvent(producer, n, timestamp) == [id |-> <<producer, n>>, timestamp |-> timestamp]

\* serde_json::to_string(event)
to_string(event) == JObj([id |-> JStr(event.id), timestamp |-> JInt(event.timestamp)])

\* serde_json::from_str(line)
from_str(line) ==
    IF line.j = "object" /\ DOMAIN line.v = {"id", "timestamp"}
    THEN Some([id |-> line.v.id.v, timestamp |-> line.v.timestamp.v])
    ELSE NoValue

\* the events of the lines of audit.log
Stored(lines) == [i \in DOMAIN lines |-> from_str(lines[i]).val]

\* event_rx.recv() taking the newest event of the channel
recv_newest(event_tx) ==
    [event |-> event_tx[Len(event_tx)], rest |-> SubSeq(event_tx, 1, Len(event_tx) - 1)]

\* event_rx.recv(): the oldest event of the channel
recv(event_tx) == [event |-> Head(event_tx), rest |-> Tail(event_tx)]

\* store writing no line
store_nothing(lines, event) == lines

\* FileAuditStorage::store: the line appended to audit.log
store(lines, event) == Append(lines, to_string(event))

\* the loop of FileAuditStorage::query over the lines not yet read
RECURSIVE query_lines(_, _, _, _, _)
query_lines(lines, start, end, limit, events) ==
    IF lines = <<>>
    THEN events
    ELSE LET event == from_str(Head(lines)).val
         IN  IF event.timestamp >= start /\ event.timestamp <= end
             THEN IF limit # NoValue /\ Len(events) + 1 >= limit.val
                  THEN Append(events, event)
                  ELSE query_lines(Tail(lines), start, end, limit, Append(events, event))
             ELSE query_lines(Tail(lines), start, end, limit, events)

query(lines, start, end, limit) == query_lines(lines, start, end, limit, <<>>)

\* FileAuditStorage::count: the lines of audit.log
count(lines) == Len(lines)

AuditFrame ==
    /\ UNCHANGED <<index, configs, versions, nextId, encryption_key, breaker, security>>
    /\ UNCHANGED <<threads, observed>>
    /\ CacheFrame /\ LimiterFrame

\* AuditLogger::log: the event is sent on the unbounded channel, which never
\* blocks and fails only when the receiver is gone
AuditLogger_log(producer, timestamp) ==
    LET event == AuditEvent(producer, Len(EventsOf(producer, audit.sent)) + 1, timestamp)
    IN  /\ Len(audit.sent) < MaxAuditEvents
        /\ audit' = [audit EXCEPT !.event_tx = Append(@, event), !.sent = Append(@, event)]
        /\ lastOp' = Call("log", <<>>, <<>>, "", event, "Ok", "None")
        /\ UNCHANGED faults
        /\ AuditFrame

\* one turn of the consumer task: recv, then store; fault is "none", "open"
\* (the file cannot be opened, nothing is written) or "sync" (sync_all fails
\* after the line was written)
Consumer_store(fault) ==
    LET received == recv(audit.event_tx)
    IN  /\ audit.event_tx # <<>>
        /\ fault # "none" => faults < MaxFaults
        /\ faults' = IF fault = "none" THEN faults ELSE faults + 1
        /\ audit' = [audit EXCEPT !.event_tx = received.rest,
                                  !.log = IF fault = "open" THEN @
                                          ELSE store(@, received.event)]
        /\ lastOp' = Call("store", <<>>, <<>>, "", received.event,
                          Result(fault = "none"), fault)
        /\ AuditFrame

AuditLogger_query(start, end, limit) ==
    /\ lastOp' = Call("query", <<>>, <<>>, "", [start |-> start, end |-> end, limit |-> limit],
                      "Ok", query(audit.log, start, end, limit))
    /\ UNCHANGED <<audit, faults>>
    /\ AuditFrame

AuditLogger_count ==
    /\ lastOp' = Call("count", <<>>, <<>>, "", "None", "Ok", count(audit.log))
    /\ UNCHANGED <<audit, faults>>
    /\ AuditFrame

InitAudit ==
    /\ Init
    /\ NoServices
    /\ encryption_key = NoKey
    /\ l1 = L1Cache_new(0)
    /\ requests = NoHistory
    /\ rate_limiter = RateLimiter_new(RateLimitConfig_default)

StoreFaults == {"none", "open", "sync"}

Limits == {NoValue} \cup {Some(n) : n \in 0..MaxAuditTime}

NextAudit ==
    \/ \E producer \in Producers, timestamp \in AuditTimes : AuditLogger_log(producer, timestamp)
    \/ \E fault \in StoreFaults : Consumer_store(fault)
    \/ \E start \in AuditTimes, end \in AuditTimes, limit \in Limits :
          AuditLogger_query(start, end, limit)
    \/ AuditLogger_count

SpecAudit == InitAudit /\ [][NextAudit]_vars


\* the events of s occur in t in the same order
RECURSIVE IsSubsequence(_, _)
IsSubsequence(s, t) ==
    IF s = <<>> THEN TRUE
    ELSE IF t = <<>> THEN FALSE
    ELSE IF Head(s) = Head(t) THEN IsSubsequence(Tail(s), Tail(t))
    ELSE IsSubsequence(s, Tail(t))

\* the numbers of the calls of a producer, in the order of the events
CallNumbers(producer, events) ==
    LET own == EventsOf(producer, events) IN [i \in DOMAIN own |-> own[i].id[2]]

Increasing(numbers) ==
    \A i \in DOMAIN numbers, j \in DOMAIN numbers : i < j => numbers[i] < numbers[j]

\* C25: the events of the lines of audit.log are in the order in which log()
\* enqueued them, and so the events of each producer are in the order of
\* that producer's log() calls.
C25_EnqueueOrder ==
    /\ IsSubsequence(Stored(audit.log), audit.sent)
    /\ \A producer \in Producers : Increasing(CallNumbers(producer, Stored(audit.log)))

\* three lines in audit.log, of both producers, the calls of the two interleaved
C25_Witness ==
    /\ Len(audit.log) = 3
    /\ Stored(audit.log)[1].id[1] = "p1"
    /\ Stored(audit.log)[2].id[1] = "p2"
    /\ Stored(audit.log)[3].id = <<"p1", 2>>

\* the events of audit.log whose timestamp lies in [start, end], in log order
Matching(lines, start, end) ==
    SelectSeq(Stored(lines), LAMBDA e : e.timestamp >= start /\ e.timestamp <= end)

\* the first n events of a sequence
FirstN(events, n) == SubSeq(events, 1, Min(n, Len(events)))

\* C27: query(start, end, limit) returns, in log order, the events whose
\* timestamp lies in [start, end]: all of them without a limit, the first
\* limit of them with one, whatever the limit.
C27_QueryReturnsFirstLimit ==
    lastOp.op = "query" =>
        lastOp.ret = IF lastOp.arg.limit = NoValue
                     THEN Matching(audit.log, lastOp.arg.start, lastOp.arg.end)
                     ELSE FirstN(Matching(audit.log, lastOp.arg.start, lastOp.arg.end),
                                 lastOp.arg.limit.val)


(***************************************************************************)
(* SpecAuditLive: the AuditLogger with no store failing and the consumer   *)
(* task scheduled fairly: tokio runs the spawned task whenever the channel *)
(* holds an event.                                                         *)
(***************************************************************************)
NextAuditLive ==
    \/ \E producer \in Producers, timestamp \in AuditTimes : AuditLogger_log(producer, timestamp)
    \/ Consumer_store("none")
    \/ AuditLogger_count

SpecAuditLive == InitAudit /\ [][NextAuditLive]_vars /\ WF_vars(Consumer_store("none"))

\* the n-th event log() accepted is the event of the n-th line of audit.log
StoredAt(n) == Len(audit.log) >= n /\ Stored(audit.log)[n] = audit.sent[n]

\* C26: with the consumer scheduled fairly and no store failing, audit.log
\* never holds an event twice or an event log() did not accept, log() is
\* possible whatever the channel holds, every event log() accepted is
\* eventually the event of a line of audit.log, and eventually count() is
\* the number of events log() accepted.
C26_EveryLoggedEventStored ==
    /\ [](IsPrefix(Stored(audit.log), audit.sent))
    /\ [](Len(audit.sent) < MaxAuditEvents =>
            \A producer \in Producers : ENABLED AuditLogger_log(producer, 1))
    /\ \A n \in 1..MaxAuditEvents : (Len(audit.sent) >= n) ~> StoredAt(n)
    /\ <>[](count(audit.log) = Len(audit.sent))

\* count() returns the number of log() calls, after a log() that returned
\* while the channel still held an earlier event
C26_Witness ==
    /\ lastOp.op = "count"
    /\ lastOp.ret = MaxAuditEvents
    /\ Len(audit.sent) = MaxAuditEvents
    /\ audit.sent[1].id[1] # audit.sent[2].id[1]


(***************************************************************************)
(* SpecBreaker: one CircuitBreaker shared by callers.  A call checks the   *)
(* state under the lock, runs its operation with the lock released, and    *)
(* records the result under the lock again, so calls overlap; the clock    *)
(* advances by whole seconds.                                              *)
(***************************************************************************)
BreakerFrame ==
    /\ UNCHANGED <<index, configs, versions, nextId, encryption_key, audit, security>>
    /\ UNCHANGED <<faults, threads, observed>>
    /\ CacheFrame /\ LimiterFrame

\* call up to operation().await: Err(CircuitBreakerError::Open) without
\* executing, or the operation starts
CircuitBreaker_call(caller) ==
    LET checked == should_execute(breaker, clock)
    IN  /\ breaker.executing < MaxExecuting
        /\ breaker' = [breaker EXCEPT !.state = checked.state,
                                      !.executing = IF checked.execute THEN @ + 1 ELSE @]
        /\ lastOp' = Call("call", <<>>, <<>>, "", caller,
                          Result(checked.execute),
                          IF checked.execute THEN "executing" ELSE "Open")
        /\ BreakerFrame

\* the operation of a call returns: on_success and Ok(result), or on_failure
\* and Err(CircuitBreakerError::Inner(e))
CircuitBreaker_returned(ok) ==
    LET state == IF ok THEN on_success(breaker) ELSE on_failure(breaker, clock)
    IN  /\ breaker.executing > 0
        /\ breaker' = [breaker EXCEPT !.state = state,
                                      !.executing = @ - 1,
                                      !.failed_in_a_row =
                                          IF ~ok /\ state.tag = "Closed" THEN @ + 1 ELSE 0,
                                      !.succeeded_in_a_row =
                                          IF ok /\ state.tag = "HalfOpen" THEN @ + 1 ELSE 0]
        /\ lastOp' = Call("returned", <<>>, <<>>, "", breaker.state, Result(ok),
                          IF ok THEN "result" ELSE "Inner")
        /\ BreakerFrame

InitBreaker ==
    /\ Init
    /\ encryption_key = NoKey
    /\ l1 = L1Cache_new(0)
    /\ requests = NoHistory
    /\ rate_limiter = RateLimiter_new(RateLimitConfig_default)
    /\ admitted = NoWindow
    /\ security = SecurityState_new
    /\ breaker \in Breakers

Callers == {"c1"}

NextBreaker ==
    \/ \E caller \in Callers : CircuitBreaker_call(caller)
    \/ \E ok \in BOOLEAN : CircuitBreaker_returned(ok)
    \/ Tick

SpecBreaker == InitBreaker /\ [][NextBreaker]_vars


\* C28: a call that fails while the circuit is closed opens it when it is the
\* failure_threshold-th failed call in a row, and leaves it closed otherwise,
\* as does a call that succeeds (which ends the row); a call made while the
\* circuit is open and its timeout has not elapsed returns
\* CircuitBreakerError::Open without executing its operation.
C28_OpensAfterThreshold ==
    [][/\ (lastOp'.op = "returned" /\ breaker.state.tag = "Closed") =>
            IF lastOp'.res = "Err" /\ breaker.failed_in_a_row + 1 >= breaker.failure_threshold
            THEN breaker'.state = Open(clock)
            ELSE /\ breaker'.state.tag = "Closed"
                 /\ breaker'.failed_in_a_row < breaker.failure_threshold
       /\ (/\ lastOp'.op = "call"
           /\ breaker.state.tag = "Open"
           /\ clock - breaker.state.opened_at < breaker.timeout) =>
            /\ lastOp'.res = "Err" /\ lastOp'.ret = "Open"
            /\ breaker'.executing = breaker.executing
            /\ breaker'.state = breaker.state]_vars

\* a call is turned away by a circuit that two failed calls in a row opened
C28_Witness ==
    /\ lastOp.op = "call" /\ lastOp.ret = "Open"
    /\ breaker.failure_threshold = 2
    /\ breaker.state.tag = "Open"
    /\ breaker.executing = 0

\* C30: a call made while the circuit is open and its timeout has elapsed
\* makes it half-open and executes; a call that succeeds while the circuit is
\* half-open closes it with a failure count of 0 when it is the
\* success_threshold-th success in a row, and leaves it half-open otherwise;
\* a call that fails while the circuit is half-open opens it again, the
\* timeout starting anew.
C30_Recovery ==
    [][/\ (/\ lastOp'.op = "call"
           /\ breaker.state.tag = "Open"
           /\ clock - breaker.state.opened_at >= breaker.timeout) =>
            /\ lastOp'.res = "Ok"
            /\ breaker'.state = HalfOpen(0)
            /\ breaker'.executing = breaker.executing + 1
       /\ (lastOp'.op = "returned" /\ breaker.state.tag = "HalfOpen") =>
            IF lastOp'.res = "Err"
            THEN breaker'.state = Open(clock)
            ELSE IF breaker.succeeded_in_a_row + 1 >= breaker.success_threshold
            THEN breaker'.state = Closed(0)
            ELSE breaker'.state.tag = "HalfOpen"]_vars

\* the second success in a row of a half-open circuit has closed it
C30_Witness ==
    /\ lastOp.op = "returned" /\ lastOp.res = "Ok"
    /\ lastOp.arg = HalfOpen(1)
    /\ breaker.success_threshold = 2
    /\ breaker.timeout >= 1
    /\ breaker.state = Closed(0)


(***************************************************************************)
(* SpecRetry: retry_with_backoff (error_utils.rs) applied to a policy and  *)
(* an operation that returns the given results one call after the other:   *)
(* "Ok", "Retriable" (an error is_retriable accepts) or "Fatal" (one it     *)
(* does not).  max_attempts is a u32: max_attempts - 1 overflows for 0,    *)
(* which panics in a build with overflow checks and wraps in one without.  *)
(* The sleeps between the attempts are left out.                           *)
(***************************************************************************)
\* attempt < max_attempts - 1 in u32 without overflow checks: 0 - 1 wraps to
\* 2^32 - 1, a number above every attempt counted here (and above the
\* integers of the model checker, which is why it is not written out)
below_last(attempt, max_attempts) ==
    IF max_attempts = 0
    THEN attempt <= MaxOutcomes
    ELSE attempt < max_attempts - 1

\* the loop of retry_with_backoff from the attempt on, the operation having
\* been invoked invocations times: the result and the number of invocations;
\* "pending" when the loop goes on after the last of the given results
RECURSIVE retry_loop(_, _, _, _, _)
retry_loop(policy, outcomes, attempt, invocations, overflow_checks) ==
    IF outcomes = <<>>
    THEN [result |-> "pending", invocations |-> invocations]
    ELSE IF Head(outcomes) = "Ok"
    THEN [result |-> "Ok", invocations |-> invocations + 1]
    ELSE IF policy.max_attempts = 0 /\ overflow_checks
    THEN [result |-> "panic", invocations |-> invocations + 1]
    ELSE IF below_last(attempt, policy.max_attempts) /\ Head(outcomes) = "Retriable"
    THEN retry_loop(policy, Tail(outcomes), attempt + 1, invocations + 1, overflow_checks)
    ELSE [result |-> Head(outcomes), invocations |-> invocations + 1]

retry_with_backoff(policy, outcomes, overflow_checks) ==
    retry_loop(policy, outcomes, 0, 0, overflow_checks)

\* RetryPolicy::new(max_attempts, 100, 10_000, 2.0)
RetryPolicy_new(max_attempts) ==
    [max_attempts |-> max_attempts, initial_backoff_ms |-> 100, max_backoff_ms |-> 10000,
     backoff_multiplier |-> 2]

Outcomes == [1..MaxOutcomes -> {"Ok", "Retriable", "Fatal"}]

Retry(policy, outcomes, overflow_checks) ==
    LET returned == retry_with_backoff(policy, outcomes, overflow_checks)
    IN  /\ lastOp' = Call("retry_with_backoff", <<>>, <<>>, "",
                          [policy |-> policy, outcomes |-> outcomes,
                           overflow_checks |-> overflow_checks],
                          Result(returned.result = "Ok"), returned)
        /\ UNCHANGED <<index, configs, versions, nextId, encryption_key, faults, threads,
                       observed, audit, breaker, security>>
        /\ CacheFrame /\ LimiterFrame

NextRetry ==
    \E max_attempts \in 0..MaxAttempts, outcomes \in Outcomes, overflow_checks \in BOOLEAN :
        Retry(RetryPolicy_new(max_attempts), outcomes, overflow_checks)

SpecRetry == InitAudit /\ [][NextRetry]_vars

\* the results the operation returned before its first "Ok" or "Fatal"
RECURSIVE RetriableRun(_)
RetriableRun(outcomes) ==
    IF outcomes = <<>> \/ Head(outcomes) # "Retriable"
    THEN 0
    ELSE 1 + RetriableRun(Tail(outcomes))

\* what the claim lets a retry return: the result of the first call that does
\* not fail with a retriable error when that is among the first max_attempts
\* calls, the last error after exactly max_attempts calls otherwise
Claimed(policy, outcomes) ==
    IF RetriableRun(outcomes) < policy.max_attempts
    THEN [result |-> outcomes[RetriableRun(outcomes) + 1],
          invocations |-> RetriableRun(outcomes) + 1]
    ELSE [result |-> "Retriable", invocations |-> policy.max_attempts]

\* C29: retry_with_backoff invokes the operation at least once and at most
\* max_attempts times, whatever max_attempts is: it returns the first Ok, it
\* returns an error that is not retriable at once, and when every call fails
\* with a retriable error it returns the last one after exactly max_attempts
\* invocations.
C29_AttemptsBounded ==
    lastOp.op = "retry_with_backoff" =>
        /\ lastOp.ret.invocations >= 1
        /\ lastOp.ret.invocations <= lastOp.arg.policy.max_attempts
        /\ lastOp.ret = Claimed(lastOp.arg.policy, lastOp.arg.outcomes)

(***************************************************************************)
(* SpecWriters: threads sharing one ConfigManager, each calling set on one  *)
(* triple, the steps of their calls interleaving as in SpecThreads.  A call *)
(* that reaches create_snapshot returns Ok; one whose rename fails returns  *)
(* Err and leaves no record.                                                *)
(***************************************************************************)
NextWriters ==
    \/ \E th \in ThreadIds, namespace \in Namespaces, key \in Keys, env \in ThreadEnvs,
          value \in PlainValues, user \in Users :
          Thread_set_begin(th, namespace, key, value, env, user)
    \/ \E th \in ThreadIds :
          \/ Thread_write_temp(th)
          \/ Thread_rename(th)
          \/ Thread_index_insert(th)
          \/ Thread_create_snapshot(th)

SpecWriters == InitNoKey /\ [][NextWriters]_vars

\* no two files of versions/ hold records of the triple with one version
DistinctVersions(vers, t) ==
    \A i, j \in VersionFiles(vers, t.namespace, t.key, t.env) :
        i # j => VersionAt(vers, i).version # VersionAt(vers, j).version

\* C31: whatever the interleaving of the set calls of the threads on a
\* triple, the calls that returned Ok have each left one record in the
\* history of the triple, and no two of these records carry the same version.
C31_NoLostUpdate ==
    \A t \in Triples : DistinctVersions(versions, t)

(***************************************************************************)
(* SpecStorageThreads: threads sharing one FileStorage, each calling set or *)
(* delete, the steps of the calls interleaving.  set takes the write lock   *)
(* of the index for its insert alone; delete takes it before index.remove   *)
(* and holds it until it returns.                                           *)
(***************************************************************************)
\* a thread inside delete holds the write lock of the index
IndexLocked == \E th \in DOMAIN threads : threads[th].pc \in {"exists", "remove_file"}

InStorageCall(pc, config, namespace, key, env) ==
    [pc |-> pc, config |-> config, namespace |-> namespace, key |-> key, env |-> env]

PathOf(call) == config_file_path(call.namespace, call.key, call.env)

\* FileStorage::set, write_config_atomically: the temporary file created,
\* written and synced
Storage_set_write_temp(th, config) ==
    /\ th \notin DOMAIN threads
    /\ LET call == InStorageCall("rename", config, config.namespace, config.key,
                                 config.environment)
       IN  /\ configs' = MapPut(configs, temp_path(PathOf(call)),
                                WholeFile(EntryToJson(config)))
           /\ threads' = MapPut(threads, th, call)
    /\ UNCHANGED <<index, versions, nextId, observed>>
    /\ ThreadFrame

\* fs::rename(temp, path): it fails, and set returns the error, when another
\* thread has renamed the shared temporary file away
Storage_set_rename(th) ==
    /\ th \in DOMAIN threads
    /\ threads[th].pc = "rename"
    /\ LET path == PathOf(threads[th])
           temp == temp_path(path)
       IN  IF temp \in DOMAIN configs
           THEN /\ configs' = MapPut(MapRemove(configs, temp), path, configs[temp])
                /\ threads' = [threads EXCEPT ![th].pc = "index_insert"]
           ELSE /\ configs' = configs
                /\ threads' = MapRemove(threads, th)
    /\ UNCHANGED <<index, versions, nextId, observed>>
    /\ ThreadFrame

\* FileStorage::set, "Update index": the insert under the write lock, and
\* set returns Ok
Storage_set_index_insert(th) ==
    /\ th \in DOMAIN threads
    /\ threads[th].pc = "index_insert"
    /\ ~IndexLocked
    /\ index' = MapPut(index, make_key(threads[th].namespace, threads[th].key,
                                       threads[th].env),
                       threads[th].config)
    /\ threads' = MapRemove(threads, th)
    /\ UNCHANGED <<configs, versions, nextId, observed>>
    /\ ThreadFrame

\* FileStorage::delete, "Remove from index": the write lock taken and the
\* key removed; delete returns Ok(false) when the key was not there
Storage_delete_index_remove(th, namespace, key, env) ==
    LET storage_key == make_key(namespace, key, env)
        removed == storage_key \in DOMAIN index
    IN  /\ th \notin DOMAIN threads
        /\ ~IndexLocked
        /\ index' = MapRemove(index, storage_key)
        /\ threads' = IF removed
                      THEN MapPut(threads, th,
                                  InStorageCall("exists", NoEntry, namespace, key, env))
                      ELSE threads
        /\ UNCHANGED <<configs, versions, nextId, observed>>
        /\ ThreadFrame

\* path.exists(): delete returns Ok(true) when the file is not there
Storage_delete_exists(th) ==
    /\ th \in DOMAIN threads
    /\ threads[th].pc = "exists"
    /\ threads' = IF PathOf(threads[th]) \in DOMAIN configs
                  THEN [threads EXCEPT ![th].pc = "remove_file"]
                  ELSE MapRemove(threads, th)
    /\ UNCHANGED <<index, configs, versions, nextId, observed>>
    /\ ThreadFrame

\* fs::remove_file(path), and delete returns
Storage_delete_remove_file(th) ==
    /\ th \in DOMAIN threads
    /\ threads[th].pc = "remove_file"
    /\ configs' = MapRemove(configs, PathOf(threads[th]))
    /\ threads' = MapRemove(threads, th)
    /\ UNCHANGED <<index, versions, nextId, observed>>
    /\ ThreadFrame

NextStorageThreads ==
    \/ \E th \in ThreadIds, config \in StorageEntries : Storage_set_write_temp(th, config)
    \/ \E th \in ThreadIds, namespace \in Namespaces, key \in Keys, env \in StorageEnvs :
          Storage_delete_index_remove(th, namespace, key, env)
    \/ \E th \in ThreadIds :
          \/ Storage_set_rename(th)
          \/ Storage_set_index_insert(th)
          \/ Storage_delete_exists(th)
          \/ Storage_delete_remove_file(th)

SpecStorageThreads == InitNoKey /\ [][NextStorageThreads]_vars

\* C32: whenever every set and delete call of the threads has returned, the
\* index and configs/ agree on each triple: the index holds an entry for it
\* exactly when its file exists, and that file holds the indexed entry, so
\* that get returns after a restart what it returns before it.
C32_IndexAgreesWithFiles ==
    threads = EmptyMap =>
        \A t \in Triples : Current(index, t) = Current(rebuild_index(configs), t)

\* C33: after any sequence of set, rollback and delete calls, the records
\* get_history returns for a triple carry as many version numbers as there
\* are records: no two of them have the same version, and rollback to a
\* version designates one record.
C33_VersionsUnique ==
    \A t \in Triples :
        LET files == VersionFiles(versions, t.namespace, t.key, t.env)
        IN  /\ Cardinality({VersionAt(versions, i).version : i \in files}) = Cardinality(files)
            /\ \A n \in TargetVersions :
                  Cardinality(rollback_targets(History(versions, t), n)) <= 1

(***************************************************************************)
(* SpecRecreate: set, delete and restart as in Spec, and rollback called    *)
(* for a triple that has a history and no current entry.                    *)
(***************************************************************************)
Rollback_of_deleted(namespace, key, env, target_version) ==
    /\ FileStorage_get(index, namespace, key, env) = NoEntry
    /\ get_history(versions, namespace, key, env) # {}
    /\ ConfigManager_rollback(namespace, key, env, target_version, "none", "none")

NextRecreate ==
    \/ \E namespace \in Namespaces, key \in Keys, env \in SeqEnvs :
          \/ \E value \in PlainValues, user \in Users :
                ConfigManager_set(namespace, key, value, env, user, "none", "none")
          \/ ConfigManager_delete(namespace, key, env, "none")
          \/ \E target_version \in TargetVersions :
                Rollback_of_deleted(namespace, key, env, target_version)
    \/ Restart

SpecRecreate == InitNoKey /\ [][NextRecreate]_vars

\* C38: a rollback of a triple without a current entry to a version its
\* history holds puts a current entry back: get returns an entry with the
\* value of a record of that version and with the largest version of the
\* history plus 1, and the entry is in configs/ as well.
C38_RollbackRecreates ==
    [][LET t == CallTriple(lastOp')
           n == lastOp'.arg
           before == History(versions, t)
           g == get(index', encryption_key', t.namespace, t.key, t.env)
       IN  (/\ lastOp'.op = "rollback"
            /\ Current(index, t) = NoEntry
            /\ \E r \in before : r.version = n) =>
              /\ lastOp'.res = "Ok"
              /\ g.ok /\ g.entry # NoEntry
              /\ g.entry = lastOp'.ret
              /\ g.entry.value \in {r.value : r \in {h \in before : h.version = n}}
              /\ g.entry.version = SetMax({r.version : r \in before}) + 1
              /\ Current(rebuild_index(configs'), t) = g.entry]_vars

\* a rollback to version 1 has put back an entry deleted at version 2
C38_Witness ==
    /\ lastOp.op = "rollback"
    /\ lastOp.res = "Ok"
    /\ lastOp.arg = 1
    /\ lastOp.ret # NoEntry
    /\ Current(index, CallTriple(lastOp)).version = 3
    /\ Cardinality(History(versions, CallTriple(lastOp))) = 3

(***************************************************************************)
(* SpecCacheThreads: threads sharing one CacheManager, each calling get or  *)
(* invalidate, and put called while no thread is inside a call.  Each call  *)
(* of L1Cache and of L2Cache runs under the lock of its tier and is one     *)
(* step; CacheManager holds no lock between the steps of get or of          *)
(* invalidate.  lastOp records the last put or invalidate that returned.    *)
(***************************************************************************)
InCacheCall(pc, namespace, key, env, entry) ==
    [pc |-> pc, namespace |-> namespace, key |-> key, env |-> env, entry |-> entry]

\* CacheManager::get, "Try L1 first": a hit returns the entry
Get_l1_get(th, namespace, key, env, now) ==
    LET first == L1Cache_get(l1, namespace, key, env, now)
    IN  /\ th \notin DOMAIN threads
        /\ GetsCounted < MaxCacheGets
        /\ l1' = first.l1
        /\ threads' = IF first.ok
                      THEN threads
                      ELSE MapPut(threads, th, InCacheCall("l2_get", namespace, key, env, NoEntry))
        /\ UNCHANGED <<l2, observed>>
        /\ CachePutFrame

\* CacheManager::get, "Try L2 if L1 miss": a miss returns CacheMiss
Get_l2_get(th) ==
    /\ th \in DOMAIN threads /\ threads[th].pc = "l2_get"
    /\ LET second == L2Cache_get(l2, threads[th].namespace, threads[th].key, threads[th].env)
       IN  threads' = IF second.ok
                      THEN [threads EXCEPT ![th].pc = "l1_put", ![th].entry = second.entry]
                      ELSE MapRemove(threads, th)
    /\ UNCHANGED <<l1, l2, observed>>
    /\ CachePutFrame

\* CacheManager::get, "Promote to L1", and get returns the entry
Get_l1_put(th, now) ==
    /\ th \in DOMAIN threads /\ threads[th].pc = "l1_put"
    /\ l1' \in L1Cache_put(l1, threads[th].entry, now)
    /\ threads' = MapRemove(threads, th)
    /\ UNCHANGED <<l2, observed>>
    /\ CachePutFrame

\* CacheManager::invalidate: self.l1.invalidate(namespace, key, env)
Invalidate_l1(th, namespace, key, env) ==
    /\ th \notin DOMAIN threads
    /\ l1' = L1Cache_invalidate(l1, namespace, key, env)
    /\ threads' = MapPut(threads, th, InCacheCall("l2_invalidate", namespace, key, env, NoEntry))
    /\ UNCHANGED <<l2, observed>>
    /\ CachePutFrame

\* CacheManager::invalidate: self.l2.invalidate(namespace, key, env)?, and
\* invalidate returns Ok
Invalidate_l2(th) ==
    /\ th \in DOMAIN threads /\ threads[th].pc = "l2_invalidate"
    /\ l2' = L2Cache_invalidate(l2, threads[th].namespace, threads[th].key, threads[th].env)
    /\ threads' = MapRemove(threads, th)
    /\ lastOp' = Call("cache_invalidate", threads[th].namespace, threads[th].key,
                      threads[th].env, "None", "Ok", "None")
    /\ UNCHANGED <<l1, faults, observed>>
    /\ ManagerFrame /\ LimiterFrame

\* CacheManager::put by a caller while no other call is running
Put_alone(entry, now) ==
    /\ threads = EmptyMap
    /\ CacheManager_put(entry, now, "none")

NextCacheThreads ==
    \/ \E th \in ThreadIds, env \in CacheEnvs, now \in CacheTimes :
          \/ Get_l1_get(th, CacheNamespace, <<"k">>, env, now)
          \/ Get_l1_put(th, now)
    \/ \E th \in ThreadIds, env \in CacheEnvs :
          Invalidate_l1(th, CacheNamespace, <<"k">>, env)
    \/ \E th \in ThreadIds : Get_l2_get(th) \/ Invalidate_l2(th)
    \/ \E entry \in PutEntries, now \in CacheTimes : Put_alone(entry, now)

SpecCacheThreads == InitL1 /\ [][NextCacheThreads]_vars

\* C34: when the get and invalidate calls of the threads have all returned
\* and no put has been made since an invalidate of a cache key returned, the
\* key is in neither tier: a get running beside the invalidate has not put
\* the entry back.
C34_InvalidatedStaysOut ==
    (threads = EmptyMap /\ lastOp.op = "cache_invalidate") =>
        LET k == cache_key(lastOp.namespace, lastOp.key, lastOp.env)
        IN  /\ k \notin DOMAIN l1.cache
            /\ ~L2Cache_get(l2, lastOp.namespace, lastOp.key, lastOp.env).ok

(***************************************************************************)
(* SpecPaths: FileStorage::set called, every step succeeding, for triples   *)
(* whose namespaces differ in a '/' against a '_', and restarts.            *)
(***************************************************************************)
PathNamespaces == {<<"a", "/", "b">>, <<"a", "_", "b">>}

PathKeys == {<<"k">>, <<"m">>}

PathEntries ==
    {[ConfigEntry_new(1, n, k, v, e) EXCEPT !.version = ver] :
        n \in PathNamespaces, k \in PathKeys, v \in PlainValues,
        e \in StorageEnvs, ver \in 1..MaxStorageVersion}

PathTriples ==
    {[namespace |-> n, key |-> k, env |-> e] :
        n \in PathNamespaces, k \in PathKeys, e \in StorageEnvs}

NextPaths ==
    \/ \E config \in PathEntries : FileStorage_set_call(config, "none", "Ok")
    \/ Restart

SpecPaths == InitNoKey /\ [][NextPaths]_vars

\* C35: a restart that rebuilds the index from configs/ returns for every
\* triple that has been set the entry get returned before the restart, also
\* when two different triples have been set.
C35_DistinctTriplesDistinctFiles ==
    [][lastOp'.op = "restart" =>
          \A t \in PathTriples :
              Current(index, t) # NoEntry => Current(index', t) = Current(index, t)]_vars

\* C36: whatever the interleaving of the calls of a CircuitBreaker, no
\* operation returns a success while the circuit is open (the Open branch of
\* on_success is never taken), and no operation is executing while the
\* circuit is open and its timeout has not elapsed.
C36_NoSuccessWhileOpen ==
    /\ [][(lastOp'.op = "returned" /\ lastOp'.res = "Ok") => breaker.state.tag # "Open"]_vars
    /\ []((breaker.state.tag = "Open" /\ ~timeout_elapsed(breaker, clock)) =>
              breaker.executing = 0)

(***************************************************************************)
(* SpecBans: one RateLimiter that bans after 2 violations for 2 seconds,    *)
(* one address sending requests without credentials past its ban, cleanup,  *)
(* and the clock advancing by whole seconds.                                *)
(***************************************************************************)
NextBans ==
    \/ check_request_call("10.0.0.1", FALSE, MaxRepeatViolations)
    \/ RateLimiter_cleanup
    \/ Tick

InitBans ==
    /\ Init
    /\ NoServices
    /\ encryption_key = NoKey
    /\ l1 = L1Cache_new(0)
    /\ rate_limiter.config \in WindowConfigs
    /\ requests = NoHistory

SpecBans == InitBans /\ [][NextBans]_vars

\* the address has been banned and is not banned now
BanOver(rl, ip, now) ==
    /\ ~is_banned(rl, ip, now)
    /\ \/ ip \in DOMAIN rl.banned_ips
       \/ ViolationsOf(rl, ip) >= rl.config.ban_threshold

\* C37: no call lowers the violations of an address that keeps its
\* IpLimiter, neither the ban nor its expiry; and once its ban is over, the
\* first request of the address that a limiter rejects bans it again at
\* once, its violations being at or above ban_threshold.
C37_ViolationsOutliveBan ==
    [][/\ \A ip \in DOMAIN rate_limiter.per_ip_limiters
                    \cap DOMAIN rate_limiter'.per_ip_limiters :
             ViolationsOf(rate_limiter', ip) >= ViolationsOf(rate_limiter, ip)
       /\ (/\ lastOp'.op = "check_request"
           /\ lastOp'.res = "Err"
           /\ lastOp'.arg.ip \in DOMAIN rate_limiter.per_ip_limiters
           /\ BanOver(rate_limiter, lastOp'.arg.ip, clock)) =>
             /\ is_banned(rate_limiter', lastOp'.arg.ip, clock')
             /\ rate_limiter'.banned_ips[lastOp'.arg.ip].banned_at = clock
             /\ ViolationsOf(rate_limiter', lastOp'.arg.ip)
                   = ViolationsOf(rate_limiter, lastOp'.arg.ip) + 1]_vars

\* the third violation of the address, after its first ban ran out, has
\* banned it again
C37_Witness ==
    /\ lastOp.op = "check_request"
    /\ lastOp.res = "Err"
    /\ ViolationsOf(rate_limiter, "10.0.0.1") = 3
    /\ rate_limiter.config.ban_threshold = 2
    /\ clock >= rate_limiter.config.ban_duration_seconds
    /\ rate_limiter.banned_ips["10.0.0.1"].banned_at = clock

(***************************************************************************)
(* SpecLocks: threads sharing one RateLimiter, each calling check_request,  *)
(* ban, unban, cleanup or get_stats.  per_ip_limiters and banned_ips are    *)
(* each behind an RwLock.  A thread in threads is inside a call: pc is the  *)
(* step it takes next, holds the locks it keeps from its earlier steps.  A  *)
(* step that needs a lock waits until the lock can be taken; a lock taken   *)
(* and released within one step is not in holds.                            *)
(***************************************************************************)
ReadLock(lock) == [lock |-> lock, mode |-> "read"]

WriteLock(lock) == [lock |-> lock, mode |-> "write"]

\* RwLock::read returns: no thread holds the write lock
CanRead(lock) == \A o \in DOMAIN threads : WriteLock(lock) \notin threads[o].holds

\* RwLock::write returns: no thread holds the lock
CanWrite(lock) ==
    \A o \in DOMAIN threads : threads[o].holds \cap {ReadLock(lock), WriteLock(lock)} = {}

InLimiterCall(pc, holds, ip, reason, violations) ==
    [pc |-> pc, holds |-> holds, ip |-> ip, reason |-> reason, violations |-> violations]

LockFrame ==
    UNCHANGED <<index, configs, versions, nextId, encryption_key, lastOp, faults, observed,
                l1, l2, clock, requests, admitted, audit, breaker, security>>

\* record_violation going on to ban_ip with the lock of per_ip_limiters
\* still held
held_into_ban_ip_kept == {WriteLock("per_ip_limiters")}

\* the locks record_violation holds when it calls ban_ip: drop(limiters)
\* has released the lock of per_ip_limiters
held_into_ban_ip == {}

\* a thread enters a call: check_request (of a request without credentials),
\* ban, unban, cleanup or get_stats
Limiter_enter(th, call, ip) ==
    /\ th \notin DOMAIN threads
    /\ call = "check_request" => ViolationsOf(rate_limiter, ip) < MaxRepeatViolations
    /\ threads' = MapPut(threads, th,
                         CASE call = "check_request" -> InLimiterCall("is_banned", {}, ip, "", 0)
                           [] call = "ban" -> InLimiterCall("ban_ip", {}, ip, "manual", 0)
                           [] call = "unban" -> InLimiterCall("unban", {}, ip, "", 0)
                           [] call = "cleanup" -> InLimiterCall("cleanup_bans", {}, ip, "", 0)
                           [] OTHER -> InLimiterCall("stats_bans", {}, ip, "", 0))
    /\ UNCHANGED rate_limiter
    /\ LockFrame

\* check_request: if self.is_banned(ip), under the read lock of banned_ips
Limiter_is_banned(th) ==
    /\ th \in DOMAIN threads /\ threads[th].pc = "is_banned"
    /\ CanRead("banned_ips")
    /\ threads' = IF is_banned(rate_limiter, threads[th].ip, clock)
                  THEN MapRemove(threads, th)
                  ELSE [threads EXCEPT ![th].pc = "global"]
    /\ UNCHANGED rate_limiter
    /\ LockFrame

\* check_request: the global limiter, which takes no lock
Limiter_global(th) ==
    LET global == governor_check(rate_limiter.unauthenticated_limiter)
    IN  /\ th \in DOMAIN threads /\ threads[th].pc = "global"
        /\ rate_limiter' = [rate_limiter EXCEPT !.unauthenticated_limiter = global.limiter]
        /\ threads' = IF global.ok
                      THEN [threads EXCEPT ![th].pc = "per_ip"]
                      ELSE [threads EXCEPT ![th].pc = "record_violation",
                                           ![th].reason = "Global rate limit exceeded"]
        /\ LockFrame

\* check_request: the per-IP limiter under the write lock of per_ip_limiters;
\* the lock is released before record_violation or at the return of Ok
Limiter_per_ip(th) ==
    LET ip == threads[th].ip
        entered == IF ip \in DOMAIN rate_limiter.per_ip_limiters
                   THEN rate_limiter
                   ELSE [rate_limiter EXCEPT !.per_ip_limiters =
                            MapPut(@, ip, IpLimiter_new(rate_limiter.config, FALSE, clock))]
        own == governor_check(entered.per_ip_limiters[ip].limiter)
    IN  /\ th \in DOMAIN threads /\ threads[th].pc = "per_ip"
        /\ CanWrite("per_ip_limiters")
        /\ rate_limiter' = [entered EXCEPT !.per_ip_limiters[ip].limiter = own.limiter]
        /\ threads' = IF own.ok
                      THEN MapRemove(threads, th)
                      ELSE [threads EXCEPT ![th].pc = "record_violation",
                                           ![th].reason = "Per-IP rate limit exceeded"]
        /\ LockFrame

\* record_violation under the write lock of per_ip_limiters: the violation
\* counted, and ban_ip called when the threshold is reached
Limiter_record_violation(th) ==
    LET ip == threads[th].ip
        counted == [rate_limiter EXCEPT !.per_ip_limiters[ip].violations = @ + 1,
                                        !.per_ip_limiters[ip].last_violation = clock]
    IN  /\ th \in DOMAIN threads /\ threads[th].pc = "record_violation"
        /\ CanWrite("per_ip_limiters")
        /\ IF ip \in DOMAIN rate_limiter.per_ip_limiters
           THEN /\ rate_limiter' = counted
                /\ threads' =
                      IF counted.per_ip_limiters[ip].violations
                            >= rate_limiter.config.ban_threshold
                      THEN [threads EXCEPT
                               ![th].pc = "ban_ip",
                               ![th].holds = held_into_ban_ip,
                               ![th].violations = counted.per_ip_limiters[ip].violations]
                      ELSE MapRemove(threads, th)
           ELSE /\ rate_limiter' = rate_limiter
                /\ threads' = MapRemove(threads, th)
        /\ LockFrame

\* ban_ip under the write lock of banned_ips, and the call returns
Limiter_ban_ip(th) ==
    /\ th \in DOMAIN threads /\ threads[th].pc = "ban_ip"
    /\ CanWrite("banned_ips")
    /\ rate_limiter' = ban_ip(rate_limiter, threads[th].ip, threads[th].reason,
                              threads[th].violations, clock)
    /\ threads' = MapRemove(threads, th)
    /\ LockFrame

\* unban under the write lock of banned_ips
Limiter_unban(th) ==
    /\ th \in DOMAIN threads /\ threads[th].pc = "unban"
    /\ CanWrite("banned_ips")
    /\ rate_limiter' = unban(rate_limiter, threads[th].ip)
    /\ threads' = MapRemove(threads, th)
    /\ LockFrame

\* cleanup, "Remove expired bans": the write lock of banned_ips taken and kept
Limiter_cleanup_bans(th) ==
    /\ th \in DOMAIN threads /\ threads[th].pc = "cleanup_bans"
    /\ CanWrite("banned_ips")
    /\ rate_limiter' = [rate_limiter EXCEPT
                           !.banned_ips = cleanup(rate_limiter, clock).banned_ips]
    /\ threads' = [threads EXCEPT ![th].pc = "cleanup_limiters",
                                  ![th].holds = {WriteLock("banned_ips")}]
    /\ LockFrame

\* cleanup, "Remove old limiters": the write lock of per_ip_limiters taken,
\* and both locks released at the return
Limiter_cleanup_limiters(th) ==
    /\ th \in DOMAIN threads /\ threads[th].pc = "cleanup_limiters"
    /\ CanWrite("per_ip_limiters")
    /\ rate_limiter' = [rate_limiter EXCEPT
                           !.per_ip_limiters = cleanup(rate_limiter, clock).per_ip_limiters]
    /\ threads' = MapRemove(threads, th)
    /\ LockFrame

\* get_stats: the read lock of banned_ips taken and kept
Limiter_stats_bans(th) ==
    /\ th \in DOMAIN threads /\ threads[th].pc = "stats_bans"
    /\ CanRead("banned_ips")
    /\ threads' = [threads EXCEPT ![th].pc = "stats_limiters",
                                  ![th].holds = {ReadLock("banned_ips")}]
    /\ UNCHANGED rate_limiter
    /\ LockFrame

\* get_stats: the read lock of per_ip_limiters taken, the statistics built,
\* and both locks released at the return
Limiter_stats_limiters(th) ==
    /\ th \in DOMAIN threads /\ threads[th].pc = "stats_limiters"
    /\ CanRead("per_ip_limiters")
    /\ threads' = MapRemove(threads, th)
    /\ UNCHANGED rate_limiter
    /\ LockFrame

LimiterCalls == {"check_request", "ban", "unban", "cleanup", "get_stats"}

\* the step of a thread inside a call
Limiter_step(th) ==
    \/ Limiter_is_banned(th)
    \/ Limiter_global(th)
    \/ Limiter_per_ip(th)
    \/ Limiter_record_violation(th)
    \/ Limiter_ban_ip(th)
    \/ Limiter_unban(th)
    \/ Limiter_cleanup_bans(th)
    \/ Limiter_cleanup_limiters(th)
    \/ Limiter_stats_bans(th)
    \/ Limiter_stats_limiters(th)

NextLocks ==
    \/ \E th \in ThreadIds, call \in LimiterCalls : Limiter_enter(th, call, "10.0.0.1")
    \/ \E th \in ThreadIds : Limiter_step(th)

\* every thread that can take its step infinitely often takes it: a thread
\* that is inside a call runs, and gets a lock that is free again and again
SpecLocks ==
    /\ InitBans
    /\ [][NextLocks]_vars
    /\ \A th \in ThreadIds : SF_vars(Limiter_step(th))

\* C39: whatever the interleaving of the check_request, ban, unban, cleanup
\* and get_stats calls of the threads, some thread inside a call can always
\* take its step (no set of threads waits for the two locks in a circle), and
\* every call that has started returns.
C39_NoDeadlock ==
    /\ [](threads # EmptyMap => \E th \in DOMAIN threads : ENABLED Limiter_step(th))
    /\ \A th \in ThreadIds : (th \in DOMAIN threads) ~> (th \notin DOMAIN threads)

\* cleanup holds the write lock of banned_ips and is about to take that of
\* per_ip_limiters while a request is about to record the violation that
\* bans its address
C39_Witness ==
    /\ \E th \in DOMAIN threads : threads[th].pc = "cleanup_limiters"
    /\ \E th \in DOMAIN threads :
          /\ threads[th].pc = "record_violation"
          /\ ViolationsOf(rate_limiter, threads[th].ip) + 1 >= rate_limiter.config.ban_threshold

====
